---- MODULE Spec2Model ----
(***************************************************************************)
(* KZG-DLEQ over a short-Weierstrass curve y^2 = x^3 + 7: the single       *)
(* prover, the verifier, the SRS and the threshold / VOLE provers.         *)
(*                                                                         *)
(* secp256k1 and Keccak-256 are scaled down so that every group element    *)
(* and every digest can be enumerated: the field prime is 13, the curve    *)
(* y^2 = x^3 + 7 over it has prime order 7 (as secp256k1 has prime order), *)
(* a 256-bit word becomes a residue modulo U256 and a digest a residue     *)
(* modulo HashSpace.  All arithmetic is the arithmetic of the source.      *)
(***************************************************************************)
EXTENDS Integers, Sequences, FiniteSets, TLC

(***************************************************************************)
(* crypto.ts: curve constants                                              *)
(***************************************************************************)
P == 13
N == 7
GX == 7
GY == 5
G == <<GX, GY>>

\* 2^256 of encodeU256 / bigIntToBytes(v, 32), the range of a Keccak digest,
\* and the range of a 20-byte address, scaled down.
U256 == 16
HashSpace == 16
AddrSpace == 8

\* A point is the pair <<x, y>> of its affine coordinates.
\* noble's Point.ZERO has the affine form {x: 0, y: 0} (toAffine), and
\* fromAffine({x: 0, y: 0}) is Point.ZERO.
ZERO == <<0, 0>>
\* The call raised an error (a point-valued call / a scalar-valued call).
Thrown == <<>>
ThrownScalar == 0 - 1
\* The coordinates noble's formulas return for an operand that is not a group
\* element (in range, off the curve): fromAffine does not check the curve
\* equation, and what the arithmetic then yields is not specified.
Unspecified == <<0>>

mod(a, m) == a % m

\* An inversion that yields 0 for 0 instead of raising.
modInverseTotal(a, m) ==
    IF mod(a, m) = 0 THEN 0
    ELSE CHOOSE i \in 1..(m - 1) : mod(a * i, m) = 1

\* @noble/curves modular.invert: raises for 0 (mod m), else the inverse.
modInverse(a, m) ==
    IF mod(a, m) = 0 THEN ThrownScalar
    ELSE CHOOSE i \in 1..(m - 1) : mod(a * i, m) = 1

\* randomScalar(): mod(bytes, N - 1) + 1, any value of [1, N).
randomScalar == 1..(N - 1)

\* Fp.isValid of both coordinates: what Point.fromAffine checks.
ValidAffine(pt) == Len(pt) = 2 /\ pt[1] \in 0..(P - 1) /\ pt[2] \in 0..(P - 1)

CurveEquation(pt) == mod(pt[2] * pt[2] - pt[1] * pt[1] * pt[1] - 7, P) = 0

\* The points noble's arithmetic is defined on: the group of the curve.
IsGroupElement(pt) == ValidAffine(pt) /\ (pt = ZERO \/ CurveEquation(pt))

CurvePoints == {pt \in (0..(P - 1)) \X (0..(P - 1)) : CurveEquation(pt)}
GroupElements == CurvePoints \cup {ZERO}

\* The group law (Point.add, Point.negate, Point.multiply on group elements).
PointNegate(a) == IF a = ZERO THEN ZERO ELSE <<a[1], mod(P - a[2], P)>>

PointAdd(a, b) ==
    IF a = ZERO THEN b
    ELSE IF b = ZERO THEN a
    ELSE IF a[1] = b[1] /\ mod(a[2] + b[2], P) = 0 THEN ZERO
    ELSE LET lam == IF a = b
                    THEN mod(3 * a[1] * a[1] * modInverse(2 * a[2], P), P)
                    ELSE mod((b[2] - a[2]) * modInverse(b[1] - a[1], P), P)
             x3 == mod(lam * lam - a[1] - b[1], P)
             y3 == mod(lam * (a[1] - x3) - a[2], P)
         IN  <<x3, y3>>

RECURSIVE PointMultiply(_, _)
PointMultiply(a, k) ==
    IF k = 0 THEN ZERO ELSE PointAdd(PointMultiply(a, k - 1), a)

\* ecMul: fromAffine raises on a coordinate outside [0, P); multiply raises
\* on the scalar 0 ("invalid scalar: out of range").
ecMul(pt, scalar) ==
    IF pt = Thrown THEN Thrown
    ELSE IF pt # Unspecified /\ ~ValidAffine(pt) THEN Thrown
    ELSE IF mod(scalar, N) = 0 THEN Thrown
    ELSE IF ~IsGroupElement(pt) THEN Unspecified
    ELSE PointMultiply(pt, mod(scalar, N))

ecAdd(a, b) ==
    IF a = Thrown \/ b = Thrown THEN Thrown
    ELSE IF (a # Unspecified /\ ~ValidAffine(a)) \/ (b # Unspecified /\ ~ValidAffine(b))
    THEN Thrown
    ELSE IF ~IsGroupElement(a) \/ ~IsGroupElement(b) THEN Unspecified
    ELSE PointAdd(a, b)

ecSub(a, b) ==
    IF a = Thrown \/ b = Thrown THEN Thrown
    ELSE IF (a # Unspecified /\ ~ValidAffine(a)) \/ (b # Unspecified /\ ~ValidAffine(b))
    THEN Thrown
    ELSE IF ~IsGroupElement(a) \/ ~IsGroupElement(b) THEN Unspecified
    ELSE PointAdd(a, PointNegate(b))

\* isOnCurve: true unless Point.fromAffine raises.
isOnCurve(pt) == ValidAffine(pt)

(***************************************************************************)
(* Keccak-256, scaled down: a digest of the sequence of encoded fields.    *)
(***************************************************************************)
RECURSIVE Absorb(_, _, _)
Absorb(h, data, i) ==
    IF i > Len(data) THEN h
    ELSE Absorb(mod(h * 37 + data[i] * data[i] * 5 + data[i] + 11, 241), data, i + 1)

keccak256(data) == mod(Absorb(1, data, 1), HashSpace)

\* bytes.ts encoders: each keeps the low bits of its argument.
encodeU8(value) == mod(value, 256)
encodeU256(value) == mod(value, U256)
encodeAddress(addr) == mod(addr, AddrSpace)
concat(chunks) == chunks

\* ecAddress: the low 20 bytes of keccak(x || y).
ecAddress(pt) == mod(keccak256(<<pt[1], pt[2]>>), AddrSpace)

\* (Cy & 1) | ((Wy & 1) << 1)
Parity(Cy, Wy) == mod(Cy, 2) + 2 * mod(Wy, 2)

\* challenge.ts buildChallenge
buildChallenge(Cx, Wx, Px, Py, A1addr, A2addr, x, parity) ==
    mod(keccak256(concat(<<encodeU8(1), encodeU256(Cx), encodeU256(Wx),
                           encodeU256(Px), encodeU256(Py),
                           encodeAddress(A1addr), encodeAddress(A2addr),
                           encodeU256(x), encodeU8(parity)>>)), N)

\* deterministicNonce: 1 + keccak("dleq-nonce-v1" || enc32(secret) || parts) mod (N - 1),
\* every part of the callers being a scalar, encoded reduced mod N.
deterministicNonce(secret, parts) ==
    mod(keccak256(<<29, mod(secret, N)>> \o [i \in 1..Len(parts) |-> mod(parts[i], N)]),
        N - 1) + 1

(***************************************************************************)
(* The prime field of scalars, createPrimeField(N) of @guildofweavers/     *)
(* galois.  A vector is a sequence; a polynomial is the vector of its      *)
(* coefficients in ascending degree order.                                 *)
(***************************************************************************)
FieldAdd(a, b) == mod(a + b, N)
FieldSub(a, b) == mod(a - b, N)
FieldMul(a, b) == mod(a * b, N)
FieldNeg(a) == mod(0 - a, N)
FieldDiv(a, b) == mod(a * modInverse(b, N), N)

newVectorFrom(values) == values
truncateVector(v, newLength) == SubSeq(v, 1, newLength)

\* combineVectors(a, b): the linear combination sum a[i] * b[i].
RECURSIVE CombineFrom(_, _, _)
CombineFrom(a, b, i) ==
    IF i > Len(a) THEN 0 ELSE FieldAdd(FieldMul(a[i], b[i]), CombineFrom(a, b, i + 1))

combineVectors(a, b) == CombineFrom(a, b, 1)

\* An evaluation that finds every polynomial to vanish everywhere.
evalPolyAtVanishing(p, x) == 0

\* evalPolyAt(p, x) = sum p[i] * x^i.
RECURSIVE EvalFrom(_, _, _)
EvalFrom(p, x, i) ==
    IF i > Len(p) THEN 0 ELSE FieldAdd(p[i], FieldMul(x, EvalFrom(p, x, i + 1)))

evalPolyAt(p, x) == EvalFrom(p, mod(x, N), 1)

\* getPowerSeries(base, length) = [1, base, base^2, ...].
RECURSIVE getPowerSeries(_, _)
getPowerSeries(base, length) ==
    IF length = 0 THEN <<>>
    ELSE IF length = 1 THEN <<1>>
    ELSE LET prev == getPowerSeries(base, length - 1)
         IN  Append(prev, FieldMul(prev[length - 1], base))

\* Index (from 1) of the last non-zero coefficient, 0 when there is none.
lastNonZeroIndex(values) ==
    IF \E i \in 1..Len(values) : values[i] # 0
    THEN CHOOSE i \in 1..Len(values) :
             values[i] # 0 /\ \A j \in (i + 1)..Len(values) : values[j] = 0
    ELSE 0

\* divPolys(a, b): long division from the leading coefficient down; the
\* quotient has lastNonZero(a) - lastNonZero(b) + 1 coefficients.  Raises
\* when a is zero or of lower order than b.
RECURSIVE DivStep(_, _, _, _, _)
DivStep(a, b, bpos, diff, r) ==
    IF diff < 0 THEN r
    ELSE LET quot == FieldDiv(a[diff + bpos], b[bpos])
             a2 == [j \in 1..Len(a) |->
                       IF j > diff /\ j <= diff + bpos
                       THEN FieldSub(a[j], FieldMul(b[j - diff], quot))
                       ELSE a[j]]
         IN  DivStep(a2, b, bpos, diff - 1, [r EXCEPT ![diff + 1] = quot])

divPolys(a, b) ==
    LET apos == lastNonZeroIndex(a)
        bpos == lastNonZeroIndex(b)
    IN  IF apos = 0 \/ apos < bpos THEN Thrown
        ELSE DivStep(a, b, bpos, apos - bpos, [j \in 1..(apos - bpos + 1) |-> 0])

(***************************************************************************)
(* verifier.ts                                                             *)
(***************************************************************************)
DLEQProof(C, W, Pp, A1, A2, x, z) ==
    [C |-> C, W |-> W, P |-> Pp, A1 |-> A1, A2 |-> A2, x |-> x, z |-> z]

NoProof == [C |-> Thrown, W |-> Thrown, P |-> Thrown, A1 |-> Thrown, A2 |-> Thrown,
            x |-> 0, z |-> 0]

\* What the call did: returned a value, or raised.
Returned(v) == [raised |-> FALSE, value |-> v, error |-> "none"]
Raised(why) == [raised |-> TRUE, value |-> FALSE, error |-> why]

Resolve(pt, u) == IF pt = Unspecified THEN u ELSE pt

ProofCoords(proof) ==
    <<proof.C[1], proof.C[2], proof.W[1], proof.W[2], proof.P[1], proof.P[2],
      proof.A1[1], proof.A1[2], proof.A2[1], proof.A2[2]>>

\* The challenge the verifier recomputes from the proof.
ProofChallenge(proof) ==
    buildChallenge(proof.C[1], proof.W[1], proof.P[1], proof.P[2],
                   ecAddress(proof.A1), ecAddress(proof.A2), proof.x,
                   Parity(proof.C[2], proof.W[2]))

\* A check of the first relation alone.
CheckFirstRelation(proof, e, u1, u2) ==
    LET A1c == Resolve(ecSub(ecMul(G, proof.z), ecMul(proof.W, e)), u1)
    IN  IF A1c = Thrown THEN Raised("invalid scalar")
        ELSE IF A1c[1] # proof.A1[1] \/ A1c[2] # proof.A1[2] THEN Returned(FALSE)
        ELSE Returned(TRUE)

\* verifier.ts lines 67-82: the two relations, for the recomputed challenge e.
\* u1 and u2 are the coordinates the curve library yields for zG - eW and
\* zT - eC when an operand is off the curve.
CheckRelations(proof, e, u1, u2) ==
    LET zG == ecMul(G, proof.z)
        eW == ecMul(proof.W, e)
        A1c == Resolve(ecSub(zG, eW), u1)
        X == ecMul(G, proof.x)
        T == ecSub(proof.P, X)
        zT == ecMul(T, proof.z)
        eC == ecMul(proof.C, e)
        A2c == Resolve(ecSub(zT, eC), u2)
    IN  IF A1c = Thrown THEN Raised("invalid scalar")
        ELSE IF A1c[1] # proof.A1[1] \/ A1c[2] # proof.A1[2] THEN Returned(FALSE)
        ELSE IF A2c = Thrown THEN Raised("invalid scalar")
        ELSE IF A2c[1] # proof.A2[1] \/ A2c[2] # proof.A2[2] THEN Returned(FALSE)
        ELSE Returned(TRUE)

\* verifyProof(proof)
verifyProof(proof, u1, u2) ==
    IF proof.x = 0 \/ proof.x >= N THEN Returned(FALSE)
    ELSE IF proof.z = 0 \/ proof.z >= N THEN Returned(FALSE)
    ELSE IF \E i \in 1..10 : ProofCoords(proof)[i] >= P \/ ProofCoords(proof)[i] < 0
    THEN Returned(FALSE)
    ELSE IF ~isOnCurve(proof.C) THEN Returned(FALSE)
    ELSE IF ~isOnCurve(proof.W) THEN Returned(FALSE)
    ELSE IF ~isOnCurve(proof.P) THEN Returned(FALSE)
    ELSE IF ~isOnCurve(proof.A1) THEN Returned(FALSE)
    ELSE IF ~isOnCurve(proof.A2) THEN Returned(FALSE)
    ELSE CheckRelations(proof, ProofChallenge(proof), u1, u2)

(***************************************************************************)
(* cheat_prover.ts                                                         *)
(***************************************************************************)
\* A response with the sign of e * w flipped.
ResponseSubtracting(kScalar, e, w) == mod(kScalar - mod(e * w, N), N)

\* z = mod(kScalar + mod(e * w, N), N)
Response(kScalar, e, w) == mod(kScalar + mod(e * w, N), N)

\* cheat_prover.ts lines 37-61, for the commitments C, W, P and the
\* quotient value w.
Prove(x, kScalar, w, C, W, Pp) ==
    LET A1 == ecMul(G, kScalar)
        X == ecMul(G, x)
        T == ecSub(Pp, X)
        A2 == ecMul(T, kScalar)
        e == buildChallenge(C[1], W[1], Pp[1], Pp[2], ecAddress(A1), ecAddress(A2), x,
                            Parity(C[2], W[2]))
    IN  IF A1 = Thrown \/ A2 = Thrown THEN Raised("invalid scalar")
        ELSE Returned(DLEQProof(C, W, Pp, A1, A2, x, Response(kScalar, e, w)))

generateProof(x, p, s, kScalar) ==
    LET p_norm == [i \in 1..Len(p) |-> mod(p[i], N)]
        px == evalPolyAt(newVectorFrom(p_norm), x)
        ps == evalPolyAt(newVectorFrom(p_norm), s)
        s_minus_x_inv == modInverse(mod(s - x, N), N)
        w == mod(ps * s_minus_x_inv, N)
        C == ecMul(G, ps)
        W == ecMul(G, w)
        Pp == ecMul(G, s)
    IN  IF px # 0 THEN Raised("Polynomial does not evaluate to zero")
        ELSE IF C = Thrown THEN Raised("invalid scalar")
        ELSE IF s_minus_x_inv = ThrownScalar THEN Raised("invert")
        ELSE IF W = Thrown \/ Pp = Thrown THEN Raised("invalid scalar")
        ELSE Prove(x, kScalar, w, C, W, Pp)

(***************************************************************************)
(* srs_prover.ts                                                           *)
(***************************************************************************)
\* generateSRS(secret, maxDegree) = [G, s*G, ..., s^maxDegree*G]
RECURSIVE SRSFrom(_, _, _)
SRSFrom(srs, s, maxDegree) ==
    IF Len(srs) > maxDegree THEN srs
    ELSE SRSFrom(Append(srs, ecMul(srs[Len(srs)], s)), s, maxDegree)

generateSRS(sec, maxDegree) ==
    IF maxDegree < 0 THEN Raised("maxDegree must be >= 0")
    ELSE IF mod(sec, N) = 0 THEN Raised("secret must be non-zero modulo N")
    ELSE Returned(SRSFrom(<<G>>, mod(sec, N), maxDegree))

\* accPoint === null
Null == <<0, 0, 0>>

RECURSIVE CommitFrom(_, _, _, _)
CommitFrom(coefficients, srs, i, accPoint) ==
    IF i > Len(coefficients) THEN accPoint
    ELSE LET coeff == mod(coefficients[i], N)
             term == ecMul(srs[i], coeff)
         IN  IF coeff = 0 THEN CommitFrom(coefficients, srs, i + 1, accPoint)
             ELSE CommitFrom(coefficients, srs, i + 1,
                             IF accPoint = Null THEN term ELSE ecAdd(accPoint, term))

\* A commitment to the leading term alone.
commitPolynomialLeading(coefficients, srs) ==
    IF Len(coefficients) = 0 THEN ZERO
    ELSE IF Len(coefficients) > Len(srs) THEN Thrown
    ELSE ecMul(srs[Len(coefficients)], coefficients[Len(coefficients)])

commitPolynomial(coefficients, srs) ==
    IF Len(coefficients) = 0 THEN ZERO
    ELSE IF Len(coefficients) > Len(srs) THEN Thrown
    ELSE LET accPoint == CommitFrom(coefficients, srs, 1, Null)
         IN  IF accPoint = Null THEN Thrown ELSE accPoint

\* evalPoly of crypto.ts: p(x) mod N.
evalPoly(coeffs, at) == EvalFrom(coeffs, mod(at, N), 1)

\* A recurrence that subtracts: b[i] = c[i] - x * b[i + 1].
RECURSIVE SyntheticDivisionSubtracting(_, _, _)
SyntheticDivisionSubtracting(coeffs, xNorm, i) ==
    IF i = Len(coeffs) THEN <<coeffs[i]>>
    ELSE LET rest == SyntheticDivisionSubtracting(coeffs, xNorm, i + 1)
         IN  <<mod(coeffs[i] - mod(xNorm * rest[1], N), N)>> \o rest

\* b[d] = c[d]; b[i] = c[i] + x * b[i + 1]
RECURSIVE SyntheticDivision(_, _, _)
SyntheticDivision(coeffs, xNorm, i) ==
    IF i = Len(coeffs) THEN <<coeffs[i]>>
    ELSE LET rest == SyntheticDivision(coeffs, xNorm, i + 1)
         IN  <<mod(coeffs[i] + mod(xNorm * rest[1], N), N)>> \o rest

\* w = sum qc * s^i, accumulated with sPow
RECURSIVE EvalQ(_, _, _, _, _)
EvalQ(qCoeffs, s, i, w, sPow) ==
    IF i > Len(qCoeffs) THEN w
    ELSE EvalQ(qCoeffs, s, i + 1, mod(w + mod(qCoeffs[i] * sPow, N), N), mod(sPow * s, N))

\* The packed challenge input of generateProofUsingSRS (writeUint256,
\* writeAddress) and its digest reduced mod N.
SRSChallenge(Cx, Wx, Px, Py, A1addr, A2addr, xNorm, parity) ==
    mod(keccak256(<<1, mod(Cx, U256), mod(Wx, U256), mod(Px, U256), mod(Py, U256),
                    mod(A1addr, AddrSpace), mod(A2addr, AddrSpace), mod(xNorm, U256),
                    mod(parity, 256)>>), N)

\* srs_prover.ts lines 180-203, for the points and scalars computed so far.
SRSProofOutput(C, W, Pp, xNorm, X, A1, A2, parity, z, zT, eC) ==
    LET Hinv == modInverse(mod(Pp[1] - X[1], P), P)
        Hinv2 == modInverse(mod(zT[1] - eC[1], P), P)
    IN  IF zT = Thrown \/ eC = Thrown THEN Raised("invalid scalar")
        ELSE IF Hinv = ThrownScalar \/ Hinv2 = ThrownScalar THEN Raised("invert")
        ELSE Returned([Cx |-> C[1], Wx |-> W[1], Px |-> Pp[1], Py |-> Pp[2], x |-> xNorm,
                       Xx |-> X[1], Xy |-> X[2], A1x |-> A1[1], A1y |-> A1[2],
                       A1addr |-> ecAddress(A1), zTx |-> zT[1], zTy |-> zT[2],
                       eCx |-> eC[1], eCy |-> eC[2], A2addr |-> ecAddress(A2),
                       Hinv |-> Hinv, Hinv2 |-> Hinv2, z |-> z, parity |-> parity])

\* srs_prover.ts lines 126-178, for the commitments and T = P - X.
SRSProve(C, W, Pp, xNorm, X, T, qCoeffs, sec, k) ==
    LET A1 == ecMul(G, k)
        A2 == ecMul(T, k)
        parity == Parity(C[2], W[2])
        e == SRSChallenge(C[1], W[1], Pp[1], Pp[2], ecAddress(A1), ecAddress(A2),
                          xNorm, parity)
        w == EvalQ(qCoeffs, mod(sec, N), 1, 0, 1)
        z == mod(k + mod(e * w, N), N)
    IN  IF A1 = Thrown \/ A2 = Thrown THEN Raised("invalid scalar")
        ELSE SRSProofOutput(C, W, Pp, xNorm, X, A1, A2, parity, z, ecMul(T, z), ecMul(C, e))

\* srs_prover.ts lines 94-124, for the normalised inputs and the division b.
SRSCommit(xNorm, coeffs, b, sec, srs, k) ==
    LET C == commitPolynomial(coeffs, srs)
        qCoeffs == SubSeq(b, 2, Len(b))
        W == commitPolynomial(qCoeffs, srs)
        X == ecMul(G, xNorm)
    IN  IF C = Thrown THEN Raised("Commitment to zero polynomial is not supported")
        ELSE IF b[1] # 0 THEN Raised("Division failed: p(x) != 0")
        ELSE IF W = Thrown THEN Raised("Commitment to zero polynomial is not supported")
        ELSE IF Len(srs) < 2 THEN Raised("SRS must have at least 2 elements (G, sG)")
        ELSE IF X = Thrown THEN Raised("invalid scalar")
        ELSE SRSProve(C, W, srs[2], xNorm, X, ecSub(srs[2], X), qCoeffs, sec, k)

generateProofUsingSRS(xIn, polynomial, sec, srs, k) ==
    LET xNorm == mod(xIn, N)
        coeffs == [i \in 1..Len(polynomial) |-> mod(polynomial[i], N)]
        px == evalPoly(coeffs, xNorm)
    IN  IF Len(polynomial) = 0 THEN Raised("Polynomial must have at least one coefficient")
        ELSE IF Len(polynomial) > Len(srs) THEN Raised("Polynomial degree exceeds SRS length")
        ELSE IF xNorm = 0 THEN Raised("x must be non-zero")
        ELSE IF px # 0 THEN Raised("Polynomial does not evaluate to zero")
        ELSE SRSCommit(xNorm, coeffs, SyntheticDivision(coeffs, xNorm, 1), sec, srs, k)

(***************************************************************************)
(* State                                                                   *)
(***************************************************************************)
VARIABLES
    x,          \* the evaluation point handed to the provers
    poly,       \* the coefficients handed to the provers
    secret,     \* the trusted-setup scalar s
    single,     \* what the single-prover call did
    vproof,     \* the proof handed to verifyProof
    origin,     \* where vproof comes from
    verdict,    \* what verifyProof did with vproof
    session,    \* the run of the threshold / VOLE prover over the nodes
    offline,    \* the call of the OT / IKNP / Beaver layer: arguments and outcome
    pool        \* the ROLE pools of the sender and the receiver, and what they handed out

vars == <<x, poly, secret, single, vproof, origin, verdict, session, offline, pool>>

\* Model bounds: the longest coefficient list.
MaxLen == 2

Scalars == 0..(N - 1)
Polys == UNION {[1..len -> Scalars] : len \in 1..MaxLen}

\* No run of the threshold or VOLE prover.
NoChallenge ==
    [set |-> FALSE, C |-> Thrown, W |-> Thrown, A1 |-> Thrown, A2 |-> Thrown, e |-> 0]
NoSession ==
    [protocol |-> "none", shares |-> <<>>, round1 |-> <<>>, challenge |-> NoChallenge,
     round2 |-> <<>>]

NoCall == [fn |-> "none", raised |-> FALSE, error |-> "none", proof |-> NoProof]

\* No call of the OT / IKNP / Beaver layer, and no ROLE pool.
NoOffline == [fn |-> "none", args |-> <<>>, out |-> <<>>]
NoPool == [made |-> FALSE, sender |-> <<>>, receiver |-> <<>>, sent |-> <<>>, received |-> <<>>]

\* The coordinates the library may yield for an expression with an operand
\* off the curve: any pair of field elements.
Coordinates == (0..(P - 1)) \X (0..(P - 1))
OutcomesFor(operands) ==
    IF \A i \in 1..Len(operands) : IsGroupElement(operands[i]) \/ ~ValidAffine(operands[i])
    THEN {ZERO}
    ELSE Coordinates

(***************************************************************************)
(* Operations                                                              *)
(***************************************************************************)
\* A caller runs generateProof(x, poly, secret); the nonce is randomScalar().
GenerateProof ==
    /\ single.fn = "none"
    /\ \E k \in randomScalar :
          \E r \in {generateProof(x, poly, secret, k)} :
              single' = [fn |-> "generateProof", raised |-> r.raised, error |-> r.error,
                         proof |-> IF r.raised THEN NoProof ELSE r.value]
    /\ UNCHANGED <<x, poly, secret, vproof, origin, verdict, session, offline, pool>>

\* A caller runs generateProofUsingSRS(x, poly, secret, srs) with the SRS
\* generateSRS(secret, maxDegree) of some degree.
GenerateProofUsingSRS ==
    /\ single.fn = "none"
    /\ \E maxDegree \in 0..(MaxLen - 1), k \in randomScalar :
          \E srs \in {generateSRS(secret, maxDegree)} :
              /\ ~srs.raised
              /\ \E r \in {generateProofUsingSRS(x, poly, secret, srs.value, k)} :
                    single' = [fn |-> "generateProofUsingSRS", raised |-> r.raised,
                               error |-> r.error,
                               proof |-> IF r.raised THEN NoProof
                                         ELSE [NoProof EXCEPT !.x = r.value.x,
                                                              !.z = r.value.z]]
    /\ UNCHANGED <<x, poly, secret, vproof, origin, verdict, session, offline, pool>>

\* The proof the single prover returned is handed to the verifier.
SubmitGenerated ==
    /\ single.fn = "generateProof"
    /\ ~single.raised
    /\ origin = "none"
    /\ vproof' = single.proof
    /\ origin' = "single"
    /\ UNCHANGED <<x, poly, secret, single, verdict, session, offline, pool>>

\* verifyProof(vproof)
Verify ==
    /\ origin # "none"
    /\ verdict = "none"
    /\ \E u1 \in OutcomesFor(<<vproof.W>>), u2 \in OutcomesFor(<<vproof.P, vproof.C>>) :
          \E r \in {verifyProof(vproof, u1, u2)} :
              verdict' = IF r.raised THEN "raised"
                         ELSE IF r.value THEN "true" ELSE "false"
    /\ UNCHANGED <<x, poly, secret, single, vproof, origin, session, offline, pool>>

(***************************************************************************)
(* The single prover and the verifier                                      *)
(***************************************************************************)
InitSingle ==
    /\ x \in Scalars
    /\ poly \in Polys
    /\ secret \in 1..(N - 1)
    /\ single = NoCall
    /\ vproof = NoProof
    /\ origin = "none"
    /\ verdict = "none"
    /\ session = NoSession
    /\ offline = NoOffline
    /\ pool = NoPool

NextSingle == GenerateProof \/ GenerateProofUsingSRS \/ SubmitGenerated \/ Verify

SpecSingle == InitSingle /\ [][NextSingle]_vars

(***************************************************************************)
(* The verifier on arbitrary proofs                                        *)
(***************************************************************************)
\* Pairs that are not points of the curve: in range and off the curve, and
\* with a coordinate that is negative or not below P.
BadPoints ==
    {<<1, 1>>, <<0, 1>>, <<GX, GY + 1>>, <<GX + P, GY>>, <<GX, GY + P>>,
     <<0 - 1, GY>>, <<GX, 0 - 1>>}
BadScalars == {0 - 1, 0, N, N + 1}

\* Scalars in range: the least ones and the greatest one.
ProofScalars == {1, 2, N - 1}

SeedPoints == {G, PointAdd(G, G)}
SeedProofs ==
    {DLEQProof(c, w, pp, a1, a2, xx, zz) :
        c \in SeedPoints, w \in SeedPoints, pp \in SeedPoints,
        a1 \in SeedPoints, a2 \in SeedPoints, xx \in 1..2, zz \in 1..2}

\* A seed proof with one field replaced by an invalid value.
InvalidProofs ==
    UNION {{[seed EXCEPT !.C = bad], [seed EXCEPT !.W = bad], [seed EXCEPT !.P = bad],
            [seed EXCEPT !.A1 = bad], [seed EXCEPT !.A2 = bad]} :
           seed \in SeedProofs, bad \in BadPoints}
    \cup UNION {{[seed EXCEPT !.x = bad], [seed EXCEPT !.z = bad]} :
                seed \in SeedProofs, bad \in BadScalars}

\* A caller replaces z of an accepted proof by z + 1 mod N and submits it.
MutateZ ==
    /\ origin = "input"
    /\ verdict = "true"
    /\ vproof' = [vproof EXCEPT !.z = mod(vproof.z + 1, N)]
    /\ origin' = "z+1"
    /\ verdict' = "none"
    /\ UNCHANGED <<x, poly, secret, single, session, offline, pool>>

\* A caller replaces x of an accepted proof by x + 1 mod N and submits it.
MutateX ==
    /\ origin = "input"
    /\ verdict = "true"
    /\ vproof' = [vproof EXCEPT !.x = mod(vproof.x + 1, N)]
    /\ origin' = "x+1"
    /\ verdict' = "none"
    /\ UNCHANGED <<x, poly, secret, single, session, offline, pool>>

InitVerify ==
    /\ x = 0
    /\ poly = <<>>
    /\ secret = 0
    /\ single = NoCall
    /\ \/ \E c \in GroupElements, w \in GroupElements, pp \in GroupElements,
             a1 \in GroupElements, a2 \in GroupElements,
             xx \in ProofScalars, zz \in ProofScalars :
               vproof = DLEQProof(c, w, pp, a1, a2, xx, zz)
       \/ vproof \in InvalidProofs
    /\ origin = "input"
    /\ verdict = "none"
    /\ session = NoSession
    /\ offline = NoOffline
    /\ pool = NoPool

NextVerify == Verify \/ MutateZ \/ MutateX

SpecVerify == InitVerify /\ [][NextVerify]_vars

(***************************************************************************)
(* Properties of the single prover                                         *)
(***************************************************************************)
\* p(at) mod N, term by term.
RECURSIVE Power(_, _)
Power(base, n) == IF n = 0 THEN 1 ELSE base * Power(base, n - 1)

RECURSIVE SumOfTerms(_, _, _)
SumOfTerms(p, at, i) ==
    IF i > Len(p) THEN 0 ELSE p[i] * Power(at, i - 1) + SumOfTerms(p, at, i + 1)

ValueAt(p, at) == SumOfTerms(p, at, 1) % N

\* The inputs completeness speaks of: x in [1, N), s # x, deg p >= 1, p(x) = 0.
CompletenessInputs ==
    /\ x \in 1..(N - 1)
    /\ secret # x
    /\ Len(poly) >= 2
    /\ poly[Len(poly)] # 0
    /\ ValueAt(poly, x) = 0

C6_NonVanishingRaises ==
    (single.fn # "none" /\ ValueAt(poly, x) # 0) =>
        /\ single.raised
        /\ single.proof = NoProof
        /\ single.fn = "generateProof" =>
              single.error = "Polynomial does not evaluate to zero"
        /\ single.fn = "generateProofUsingSRS" =>
              single.error \in {"Polynomial does not evaluate to zero",
                                "Polynomial degree exceeds SRS length",
                                "x must be non-zero"}

C6_Witness ==
    /\ single.fn = "generateProofUsingSRS"
    /\ ValueAt(poly, x) # 0
    /\ single.raised
    /\ single.error = "Polynomial does not evaluate to zero"

\* C7: when the setup secret equals the evaluation point mod N, generateProof
\* and generateProofUsingSRS (with any SRS of that secret) raise and return
\* no proof.
C7_DegenerateSetupRaises ==
    (single.fn # "none" /\ secret = x % N) =>
        (single.raised /\ single.proof = NoProof)

C7_Witness ==
    /\ single.fn = "generateProofUsingSRS"
    /\ secret = x % N
    /\ ValueAt(poly, x) = 0
    /\ single.raised
    /\ single.error = "invert"

(***************************************************************************)
(* Properties of the verifier                                              *)
(***************************************************************************)
ProofPoints(proof) == <<proof.C, proof.W, proof.P, proof.A1, proof.A2>>

\* Every point of the proof is an affine point of the curve.
AllOnCurve(proof) ==
    \A i \in 1..5 : ValidAffine(ProofPoints(proof)[i]) /\ CurveEquation(ProofPoints(proof)[i])

\* C2: verifyProof returns true only if, for e = buildChallenge(C.x, W.x,
\* P.x, P.y, ecAddress(A1), ecAddress(A2), x, parity) and T = P - x*G, both
\* A1 = z*G - e*W and A2 = z*T - e*C hold coordinate by coordinate (scalars
\* taken mod N, and stated where the operands are group elements, on which
\* the curve library's results are defined).
C2_AcceptedOnlyIfRelationsHold ==
    (origin # "none" /\ verdict = "true") =>
        LET e == buildChallenge(vproof.C[1], vproof.W[1], vproof.P[1], vproof.P[2],
                                ecAddress(vproof.A1), ecAddress(vproof.A2), vproof.x,
                                (vproof.C[2] % 2) + 2 * (vproof.W[2] % 2))
            T == PointAdd(vproof.P, PointNegate(PointMultiply(G, vproof.x % N)))
        IN  /\ IsGroupElement(vproof.W) =>
                  vproof.A1 = PointAdd(PointMultiply(G, vproof.z % N),
                                       PointNegate(PointMultiply(vproof.W, e)))
            /\ (IsGroupElement(vproof.P) /\ IsGroupElement(vproof.C)) =>
                  vproof.A2 = PointAdd(PointMultiply(T, vproof.z % N),
                                       PointNegate(PointMultiply(vproof.C, e)))

C2_Witness ==
    /\ origin = "input"
    /\ verdict = "true"
    /\ AllOnCurve(vproof)

\* C3 as stated: for every input proof verifyProof ends with true or false
\* and never raises an error.
C3_NeverRaises == (origin # "none") => verdict # "raised"

\* The input is one of those C4 names: x = 0, x >= N, z = 0, z >= N, a
\* coordinate negative or >= P, or a point off the curve.
InvalidInput(proof) ==
    \/ proof.x = 0 \/ proof.x >= N
    \/ proof.z = 0 \/ proof.z >= N
    \/ \E i \in 1..10 : ProofCoords(proof)[i] < 0 \/ ProofCoords(proof)[i] >= P
    \/ \E i \in 1..5 : ~CurveEquation(ProofPoints(proof)[i])

\* C4 as stated: verifyProof returns false whenever x = 0, x >= N, z = 0,
\* z >= N, a coordinate is negative or >= P, or one of the five points is
\* off the curve.
C4_InvalidRejected ==
    (origin = "input" /\ verdict # "none" /\ InvalidInput(vproof)) => verdict = "false"

\* C5 as stated: an accepted proof with only z replaced by z + 1 mod N, or
\* only x replaced by x + 1 mod N, is rejected by verifyProof.
C5_MutationRejected ==
    (origin \in {"z+1", "x+1"} /\ verdict # "none") => verdict = "false"

(***************************************************************************)
(* cheat_srs.ts: additive shares of the powers of s                        *)
(***************************************************************************)
\* Field.prng(seed, length): length field elements expanded from the seed.
prng(seed, length) == [i \in 1..length |-> mod(Absorb(seed + 3, <<i, seed>>, 1), N)]

\* splitVector(v, rows): the matrix of rows rows; matrixRowsToVectors: its rows.
splitVector(v, rows) ==
    [r \in 1..rows |-> SubSeq(v, (r - 1) * (Len(v) \div rows) + 1, r * (Len(v) \div rows))]
matrixRowsToVectors(mm) == mm

\* combineManyVectors(vectors, coeffs)[j] = sum coeffs[r] * vectors[r][j]
RECURSIVE CombineManyFrom(_, _, _, _)
CombineManyFrom(vectors, coeffs, j, r) ==
    IF r > Len(vectors) THEN 0
    ELSE FieldAdd(FieldMul(coeffs[r], vectors[r][j]), CombineManyFrom(vectors, coeffs, j, r + 1))

combineManyVectors(vectors, coeffs) ==
    [j \in 1..Len(vectors[1]) |-> CombineManyFrom(vectors, coeffs, j, 1)]

subVectorElements(a, b) == [j \in 1..Len(a) |-> FieldSub(a[j], b[j])]

\* Shares whose last row is the targets themselves.
SharedRowsUnclosed(targets, randomRows) == Append(randomRows, targets)

\* cheat_srs.ts lines 72-87: the random rows and the row that closes the sums.
SharedRows(targets, randomRows) ==
    Append(randomRows,
           subVectorElements(targets,
                             combineManyVectors(randomRows,
                                                getPowerSeries(1, Len(randomRows)))))

\* generateSharedSRS(numNodes, maxDegree, secret); seed is randomScalar().
generateSharedSRS(numNodes, maxDegree, sec, seed) ==
    IF numNodes < 1 THEN Raised("numNodes must be at least 1")
    ELSE IF maxDegree < 0 THEN Raised("maxDegree must be non-negative")
    ELSE IF mod(sec, N) = 0 THEN Raised("secret must be non-zero modulo N")
    ELSE IF numNodes = 1 THEN Returned(<<getPowerSeries(mod(sec, N), maxDegree + 1)>>)
    ELSE Returned(SharedRows(getPowerSeries(mod(sec, N), maxDegree + 1),
                             matrixRowsToVectors(
                                 splitVector(prng(seed, (numNodes - 1) * (maxDegree + 1)),
                                             numNodes - 1))))

(***************************************************************************)
(* prover.ts: the threshold prover                                         *)
(***************************************************************************)
\* A node's Round-1 message (with the masked scalars of the VOLE variant)
\* and its secret state (with the OLE masks of the VOLE variant).
NoShare ==
    [Ci |-> Thrown, Wi |-> Thrown, A1i |-> Thrown, A2i |-> Thrown,
     deltaW |-> 0, deltaK |-> 0, oleIndex |-> 0]
NoState == [k |-> 0, wi |-> 0, oleIndex |-> 0, a |-> 0, b |-> 0]

\* prover.ts lines 87-105, for the share points and the nonce.
StartCommitments(xx, Pp, wi, Ci, Wi, k) ==
    LET A1i == ecMul(G, k)
        X == ecMul(G, xx)
        A2i == ecMul(ecSub(Pp, X), k)
    IN  IF A1i = Thrown \/ X = Thrown \/ A2i = Thrown THEN Raised("invalid scalar")
        ELSE Returned([state |-> [NoState EXCEPT !.k = k, !.wi = wi],
                       message |-> [NoShare EXCEPT !.Ci = Ci, !.Wi = Wi,
                                                   !.A1i = A1i, !.A2i = A2i]])

\* prover.ts lines 80-85, for the shares psShare and wi.
StartPoints(xx, Pp, psShare, wi) ==
    LET Ci == ecMul(G, psShare)
        Wi == ecMul(G, wi)
    IN  IF Ci = Thrown \/ Wi = Thrown THEN Raised("invalid scalar")
        ELSE StartCommitments(xx, Pp, wi, Ci, Wi,
                              deterministicNonce(wi, <<xx, Pp[1], Pp[2], Ci[1], Wi[1]>>))

\* prover.ts lines 75-78, for psShare.
StartQuotient(message, psShare, qVec) ==
    IF qVec = Thrown THEN Raised("divPolys")
    ELSE StartPoints(message.x, message.P, psShare,
                     combineVectors(qVec, truncateVector(message.srsShare, Len(qVec))))

\* proverStart(message)
proverStart(message) ==
    IF Len(message.srsShare) - 1 < Len(message.p) - 1
    THEN Raised("SRS share length is less than polynomial degree")
    ELSE StartQuotient(message,
                       combineVectors(message.p,
                                      truncateVector(message.srsShare, Len(message.p))),
                       divPolys(message.p, newVectorFrom(<<FieldNeg(message.x), 1>>)))

\* A sum that keeps the first point.
sumPointsFirst(pts) == pts[1]

\* sumPoints(pts)
RECURSIVE SumPointsFrom(_, _, _)
SumPointsFrom(pts, i, acc) ==
    IF i > Len(pts) THEN acc ELSE SumPointsFrom(pts, i + 1, ecAdd(acc, pts[i]))

sumPoints(pts) == SumPointsFrom(pts, 2, pts[1])

\* The aggregated points of the shares and the challenge built from them.
Aggregated(C, W, A1, A2, xx, Pp) ==
    [set |-> TRUE, C |-> C, W |-> W, A1 |-> A1, A2 |-> A2,
     e |-> buildChallenge(C[1], W[1], Pp[1], Pp[2], ecAddress(A1), ecAddress(A2), xx,
                          Parity(C[2], W[2]))]

Aggregate(shares, xx, Pp) ==
    Aggregated(sumPoints([i \in 1..Len(shares) |-> shares[i].Ci]),
               sumPoints([i \in 1..Len(shares) |-> shares[i].Wi]),
               sumPoints([i \in 1..Len(shares) |-> shares[i].A1i]),
               sumPoints([i \in 1..Len(shares) |-> shares[i].A2i]), xx, Pp)

\* A Round-2 output: the aggregate, the challenge and the response share.
Round2(xx, Pp, agg, e, z) ==
    [x |-> xx, P |-> Pp, C |-> agg.C, W |-> agg.W, A1 |-> agg.A1, A2 |-> agg.A2,
     e |-> e, z |-> z]

\* proverRespond(shares, x, P, state) of prover.ts
RespondTo(agg, xx, Pp, state) ==
    Returned(Round2(xx, Pp, agg, agg.e, FieldAdd(state.k, FieldMul(agg.e, state.wi))))

proverRespond(shares, xx, Pp, state) ==
    IF Len(shares) = 0 THEN Raised("No shares provided")
    ELSE RespondTo(Aggregate(shares, xx, Pp), xx, Pp, state)

\* A finalisation that takes the first node's response for the sum.
proverFinalizeFirst(message) ==
    IF Len(message) = 0 THEN Raised("No Round 2 outputs provided")
    ELSE Returned(DLEQProof(message[1].C, message[1].W, message[1].P, message[1].A1,
                            message[1].A2, message[1].x, message[1].z))

\* proverFinalize(message) of prover.ts
proverFinalize(message) ==
    IF Len(message) = 0 THEN Raised("No Round 2 outputs provided")
    ELSE Returned(DLEQProof(message[1].C, message[1].W, message[1].P, message[1].A1,
                            message[1].A2, message[1].x,
                            combineVectors(newVectorFrom([i \in 1..Len(message) |-> message[i].z]),
                                           newVectorFrom([i \in 1..Len(message) |-> 1]))))

(***************************************************************************)
(* The prover with a separate aggregator: proverChallenge, proverRespond   *)
(* on the aggregator's message, proverFinalize                             *)
(***************************************************************************)
\* proverChallenge(message)
proverChallenge(shares, xx, Pp) ==
    IF Len(shares) = 0 THEN Raised("No shares provided")
    ELSE Returned(Aggregate(shares, xx, Pp))

\* A node that answers whatever challenge the aggregator sends.
proverRespondUnchecked(message, xx, Pp, state) ==
    Returned(Round2(xx, Pp, message, message.e,
                    FieldAdd(state.k, FieldMul(message.e, state.wi))))

\* proverRespond(message, state): e is recomputed from the message's points.
proverRespondChallenge(message, xx, Pp, state) ==
    IF Aggregated(message.C, message.W, message.A1, message.A2, xx, Pp).e # message.e
    THEN Raised("Challenge mismatch; refusing to release z share")
    ELSE Returned(Round2(xx, Pp, message, message.e,
                         FieldAdd(state.k, FieldMul(message.e, state.wi))))

\* proverFinalize(message) on the challenge and the responses
proverFinalizeChallenge(challenge, xx, Pp, responses) ==
    IF Len(responses) = 0 THEN Raised("No z-shares provided")
    ELSE Returned(DLEQProof(challenge.C, challenge.W, Pp, challenge.A1, challenge.A2, xx,
                            combineVectors(newVectorFrom([i \in 1..Len(responses) |-> responses[i].z]),
                                           newVectorFrom([i \in 1..Len(responses) |-> 1]))))

(***************************************************************************)
(* The threshold prover over the nodes                                     *)
(***************************************************************************)
\* Model bound: the largest number of nodes.
MaxNodes == 2

Round1Pending == [status |-> "pending", message |-> NoShare, state |-> NoState]
NoRound2 == Round2(0, Thrown, NoChallenge, 0, 0)
Round2Pending == [status |-> "pending", asked |-> 0, out |-> NoRound2]

\* The public point P = s*G the caller hands to every node.
PublicPoint == ecMul(G, secret)

\* The Round-1 messages the caller has collected from the nodes.
Round1Returned(r) == r.status = "returned"
Round1Messages ==
    [i \in 1..Len(SelectSeq(session.round1, Round1Returned)) |->
        SelectSeq(session.round1, Round1Returned)[i].message]
Round2Outputs == [i \in 1..Len(session.round2) |-> session.round2[i].out]

\* A caller that goes on as soon as one node has returned its message.
SomeStarted ==
    \E i \in 1..Len(session.round1) : session.round1[i].status = "returned"

\* Every node has returned its Round-1 message / its Round-2 output.
AllStarted ==
    /\ Len(session.round1) >= 1
    /\ \A i \in 1..Len(session.round1) : session.round1[i].status = "returned"
AllResponded ==
    /\ Len(session.round2) >= 1
    /\ \A i \in 1..Len(session.round2) : session.round2[i].status = "returned"

\* The dealer runs generateSharedSRS(numNodes, deg p, secret).
GenerateSharedSRS ==
    /\ session.protocol # "none"
    /\ Len(session.shares) = 0
    /\ \E numNodes \in 1..MaxNodes, seed \in randomScalar :
          \E r \in {generateSharedSRS(numNodes, Len(poly) - 1, secret, seed)} :
              /\ ~r.raised
              /\ session' = [session EXCEPT
                                !.shares = r.value,
                                !.round1 = [i \in 1..numNodes |-> Round1Pending],
                                !.round2 = [i \in 1..numNodes |-> Round2Pending]]
    /\ UNCHANGED <<x, poly, secret, single, vproof, origin, verdict, offline, pool>>

\* Node i runs proverStart on its share.
ProverStart(i) ==
    /\ session.protocol = "threshold"
    /\ i \in 1..Len(session.shares)
    /\ session.round1[i].status = "pending"
    /\ \E r \in {proverStart([x |-> x, p |-> newVectorFrom(poly),
                              srsShare |-> session.shares[i], P |-> PublicPoint])} :
          session' = [session EXCEPT !.round1[i] =
                         IF r.raised THEN [Round1Pending EXCEPT !.status = "raised"]
                         ELSE [status |-> "returned", message |-> r.value.message,
                               state |-> r.value.state]]
    /\ UNCHANGED <<x, poly, secret, single, vproof, origin, verdict, offline, pool>>

\* Node i runs proverRespond of prover.ts on all Round-1 messages (the run
\* continues with the merged Round 2).
ProverRespond(i) ==
    /\ session.protocol \in {"threshold", "merged"}
    /\ AllStarted
    /\ i \in 1..Len(session.round2)
    /\ session.round2[i].status = "pending"
    /\ \E r \in {proverRespond(Round1Messages, x, PublicPoint, session.round1[i].state)} :
          session' = [session EXCEPT
                         !.protocol = "merged",
                         !.round2[i] =
                             IF r.raised THEN [Round2Pending EXCEPT !.status = "raised"]
                             ELSE [status |-> "returned", asked |-> r.value.e,
                                   out |-> r.value]]
    /\ UNCHANGED <<x, poly, secret, single, vproof, origin, verdict, offline, pool>>

\* The aggregator runs proverFinalize of prover.ts on the Round-2 outputs.
ProverFinalize ==
    /\ session.protocol = "merged"
    /\ AllResponded
    /\ origin = "none"
    /\ \E r \in {proverFinalize(Round2Outputs)} :
          /\ ~r.raised
          /\ vproof' = r.value
    /\ origin' = "threshold"
    /\ UNCHANGED <<x, poly, secret, single, verdict, session, offline, pool>>

\* The aggregator runs proverChallenge on the Round-1 messages (the run
\* continues with the aggregator's Round 2).
ProverChallenge ==
    /\ session.protocol = "threshold"
    /\ AllStarted
    /\ \E r \in {proverChallenge(Round1Messages, x, PublicPoint)} :
          /\ ~r.raised
          /\ session' = [session EXCEPT !.protocol = "aggregated", !.challenge = r.value]
    /\ UNCHANGED <<x, poly, secret, single, vproof, origin, verdict, offline, pool>>

\* The aggregator's message reaches the nodes with a challenge that is not
\* the one proverChallenge computed (a faulty or dishonest aggregator).
AlterChallenge ==
    /\ session.protocol = "aggregated"
    /\ session.challenge.set
    /\ \A i \in 1..Len(session.round2) : session.round2[i].status = "pending"
    /\ session.challenge.e = Aggregate(Round1Messages, x, PublicPoint).e
    /\ session' = [session EXCEPT !.challenge.e = mod(session.challenge.e + 1, N)]
    /\ UNCHANGED <<x, poly, secret, single, vproof, origin, verdict, offline, pool>>

\* Node i runs proverRespond on the aggregator's message.
ProverRespondChallenge(i) ==
    /\ session.protocol = "aggregated"
    /\ session.challenge.set
    /\ i \in 1..Len(session.round2)
    /\ session.round2[i].status = "pending"
    /\ \E r \in {proverRespondChallenge(session.challenge, x, PublicPoint,
                                        session.round1[i].state)} :
          session' = [session EXCEPT !.round2[i] =
                         IF r.raised
                         THEN [Round2Pending EXCEPT !.status = "raised",
                                                    !.asked = session.challenge.e]
                         ELSE [status |-> "returned", asked |-> session.challenge.e,
                               out |-> r.value]]
    /\ UNCHANGED <<x, poly, secret, single, vproof, origin, verdict, offline, pool>>

\* The aggregator runs proverFinalize on the challenge and the responses.
ProverFinalizeChallenge ==
    /\ session.protocol = "aggregated"
    /\ AllResponded
    /\ origin = "none"
    /\ \E r \in {proverFinalizeChallenge(session.challenge, x, PublicPoint, Round2Outputs)} :
          /\ ~r.raised
          /\ vproof' = r.value
    /\ origin' = "threshold"
    /\ UNCHANGED <<x, poly, secret, single, verdict, session, offline, pool>>

\* The callers hand the provers a polynomial that vanishes at x.
VanishingPolys(at) == {p \in Polys : evalPolyAt(newVectorFrom(p), at) = 0}

InitThreshold ==
    /\ x \in 1..(N - 1)
    /\ secret \in 1..(N - 1)
    /\ poly \in VanishingPolys(x)
    /\ single = NoCall
    /\ vproof = NoProof
    /\ origin = "none"
    /\ verdict = "none"
    /\ session = [NoSession EXCEPT !.protocol = "threshold"]
    /\ offline = NoOffline
    /\ pool = NoPool

NextThreshold ==
    \/ GenerateSharedSRS
    \/ \E i \in 1..MaxNodes : ProverStart(i)
    \/ \E i \in 1..MaxNodes : ProverRespond(i)
    \/ ProverFinalize
    \/ ProverChallenge
    \/ AlterChallenge
    \/ \E i \in 1..MaxNodes : ProverRespondChallenge(i)
    \/ ProverFinalizeChallenge
    \/ Verify

SpecThreshold == InitThreshold /\ [][NextThreshold]_vars

(***************************************************************************)
(* prover_vole.ts: the VOLE prover                                         *)
(***************************************************************************)
\* A share whose masks are exchanged: deltaW = w_i - b, deltaK = k_i - a.
VoleShareSwapped(started, oleSample) ==
    IF started.raised THEN started
    ELSE Returned([state |-> [started.value.state EXCEPT !.oleIndex = oleSample.index,
                                                         !.a = oleSample.a,
                                                         !.b = oleSample.b],
                   share |-> [started.value.message EXCEPT
                                 !.deltaW = FieldSub(started.value.state.wi, oleSample.b),
                                 !.deltaK = FieldSub(started.value.state.k, oleSample.a),
                                 !.oleIndex = oleSample.index]])

\* proverVoleStart lines 237-268: the masked scalars deltaW = w_i - a and
\* deltaK = k_i - b, for the share points, w_i and k of lines 214-235 and
\* 245-248.
VoleShare(started, oleSample) ==
    IF started.raised THEN started
    ELSE Returned([state |-> [started.value.state EXCEPT !.oleIndex = oleSample.index,
                                                         !.a = oleSample.a,
                                                         !.b = oleSample.b],
                   share |-> [started.value.message EXCEPT
                                 !.deltaW = FieldSub(started.value.state.wi, oleSample.a),
                                 !.deltaK = FieldSub(started.value.state.k, oleSample.b),
                                 !.oleIndex = oleSample.index]])

\* proverVoleStart(message, oleSample): lines 214-235 and 245-248 compute
\* psShare, qVec, wi, Ci, Wi, k, A1i, X, T and A2i as proverStart does.
proverVoleStart(message, oleSample) == VoleShare(proverStart(message), oleSample)

\* oleByIndex.has(s.index) for an earlier sample
DuplicateIndex(oleSamples) ==
    \E i \in 1..Len(oleSamples), j \in 1..Len(oleSamples) :
        i < j /\ oleSamples[i].index = oleSamples[j].index

\* The loop of lines 366-384 ended with an error.
MissingSample == 0 - 1
MismatchedSample == 0 - 2

\* A sum that leaves out the OLE outputs: e * deltaW_i + deltaK_i.
RECURSIVE VoleResponseUnmasked(_, _, _, _, _)
VoleResponseUnmasked(shares, oleSamples, e, i, z) ==
    IF i > Len(shares) THEN z
    ELSE VoleResponseUnmasked(shares, oleSamples, e, i + 1,
                              FieldAdd(z, FieldAdd(FieldMul(e, shares[i].deltaW),
                                                   shares[i].deltaK)))

\* z = sum of y_i + e * deltaW_i + deltaK_i over the shares
RECURSIVE VoleResponse(_, _, _, _, _)
VoleResponse(shares, oleSamples, e, i, z) ==
    IF i > Len(shares) THEN z
    ELSE IF \A j \in 1..Len(oleSamples) : oleSamples[j].index # shares[i].oleIndex
    THEN MissingSample
    ELSE LET ole == oleSamples[CHOOSE j \in 1..Len(oleSamples) :
                                   oleSamples[j].index = shares[i].oleIndex]
         IN  IF ole.x # e THEN MismatchedSample
             ELSE VoleResponse(shares, oleSamples, e, i + 1,
                               FieldAdd(z, FieldAdd(ole.y,
                                                    FieldAdd(FieldMul(e, shares[i].deltaW),
                                                             shares[i].deltaK))))

\* proverVoleFinalize lines 366-400, for the aggregate and the sum z.
VoleProof(agg, xx, Pp, z) ==
    IF z = MissingSample THEN Raised("proverVoleFinalize: missing OLE sample")
    ELSE IF z = MismatchedSample
    THEN Raised("proverVoleFinalize: OLE sample x does not match challenge e")
    ELSE IF z = 0 \/ z >= N THEN Raised("proverVoleFinalize: invalid aggregated z scalar")
    ELSE Returned(DLEQProof(agg.C, agg.W, Pp, agg.A1, agg.A2, xx, z))

\* proverVoleFinalize lines 327-364, for the aggregated points.
VoleChecked(agg, shares, oleSamples, xx, Pp) ==
    IF xx = 0 \/ xx >= N THEN Raised("proverVoleFinalize: invalid x scalar")
    ELSE IF \E c \in {agg.C[1], agg.C[2], agg.W[1], agg.W[2], Pp[1], Pp[2],
                      agg.A1[1], agg.A1[2], agg.A2[1], agg.A2[2]} : c >= P \/ c < 0
    THEN Raised("proverVoleFinalize: coordinate out of range")
    ELSE IF ~isOnCurve(agg.C) \/ ~isOnCurve(agg.W) \/ ~isOnCurve(Pp)
            \/ ~isOnCurve(agg.A1) \/ ~isOnCurve(agg.A2)
    THEN Raised("proverVoleFinalize: point not on curve")
    ELSE VoleProof(agg, xx, Pp, VoleResponse(shares, oleSamples, agg.e, 1, 0))

\* proverVoleFinalize(shares, oleSamples, x, P)
proverVoleFinalize(shares, oleSamples, xx, Pp) ==
    IF Len(shares) = 0 THEN Raised("proverVoleFinalize: no shares provided")
    ELSE IF Len(oleSamples) # Len(shares)
    THEN Raised("proverVoleFinalize: shares / OLE samples length mismatch")
    ELSE IF DuplicateIndex(oleSamples) THEN Raised("proverVoleFinalize: duplicate OLE index")
    ELSE VoleChecked(Aggregate(shares, xx, Pp), shares, oleSamples, xx, Pp)

(***************************************************************************)
(* The VOLE prover over the nodes                                          *)
(***************************************************************************)
\* The masks (a, b) of the OLE sender samples handed to the nodes.
OleMasks == {[a |-> 1, b |-> N - 1], [a |-> N - 1, b |-> 2]}

\* The receiver samples the caller builds for the challenge e:
\* {index, x: e, y: a * e + b mod N}.
ReceiverSamples(e) ==
    [i \in 1..Len(session.round1) |->
        [index |-> session.round1[i].state.oleIndex, x |-> e,
         y |-> mod(session.round1[i].state.a * e + session.round1[i].state.b, N)]]

\* The caller runs proverVoleStart for node i, after the nodes before it,
\* with the OLE sender sample of index i - 1.
ProverVoleStart(i) ==
    /\ session.protocol = "vole"
    /\ i \in 1..Len(session.shares)
    /\ session.round1[i].status = "pending"
    /\ \A j \in 1..(i - 1) : session.round1[j].status = "returned"
    /\ \E mask \in OleMasks :
          \E r \in {proverVoleStart([x |-> x, p |-> newVectorFrom(poly),
                                     srsShare |-> session.shares[i], P |-> PublicPoint],
                                    [index |-> i - 1, a |-> mask.a, b |-> mask.b])} :
              session' = [session EXCEPT !.round1[i] =
                             IF r.raised THEN [Round1Pending EXCEPT !.status = "raised"]
                             ELSE [status |-> "returned", message |-> r.value.share,
                                   state |-> r.value.state]]
    /\ UNCHANGED <<x, poly, secret, single, vproof, origin, verdict, offline, pool>>

\* The caller computes e from the aggregated shares, builds the receiver
\* samples for it and runs proverVoleFinalize.
ProverVoleFinalize ==
    /\ session.protocol = "vole"
    /\ AllStarted
    /\ single.fn = "none"
    /\ \E r \in {proverVoleFinalize(Round1Messages,
                                    ReceiverSamples(Aggregate(Round1Messages, x,
                                                              PublicPoint).e),
                                    x, PublicPoint)} :
          /\ single' = [fn |-> "proverVoleFinalize", raised |-> r.raised,
                        error |-> r.error, proof |-> IF r.raised THEN NoProof ELSE r.value]
          /\ vproof' = IF r.raised THEN vproof ELSE r.value
          /\ origin' = IF r.raised THEN origin ELSE "vole"
    /\ UNCHANGED <<x, poly, secret, verdict, session, offline, pool>>

InitVole ==
    /\ x \in 1..(N - 1)
    /\ secret \in 1..(N - 1)
    /\ poly \in VanishingPolys(x)
    /\ single = NoCall
    /\ vproof = NoProof
    /\ origin = "none"
    /\ verdict = "none"
    /\ session = [NoSession EXCEPT !.protocol = "vole"]
    /\ offline = NoOffline
    /\ pool = NoPool

NextVole ==
    \/ GenerateSharedSRS
    \/ \E i \in 1..MaxNodes : ProverVoleStart(i)
    \/ ProverVoleFinalize
    \/ Verify

SpecVole == InitVole /\ [][NextVole]_vars

(***************************************************************************)
(* Properties of the threshold prover                                      *)
(***************************************************************************)
\* <c, share> mod N, term by term.
RECURSIVE SumOfProducts(_, _, _)
SumOfProducts(c, share, j) ==
    IF j > Len(c) THEN 0 ELSE c[j] * share[j] + SumOfProducts(c, share, j + 1)

ShareValue(c, share) == SumOfProducts(c, share, 1) % N

\* The quotient q of p by (X - at): (X - at) * q = p coefficient by coefficient.
Quotient(p, at) ==
    CHOOSE q \in [1..(Len(p) - 1) -> Scalars] :
        \A j \in 1..Len(p) :
            (p[j] - (IF j > 1 THEN q[j - 1] ELSE 0)
                  + at * (IF j < Len(p) THEN q[j] ELSE 0)) % N = 0

C10_ReleasedOnlyForOwnChallenge ==
    \A i \in 1..Len(session.round2) :
        /\ session.round2[i].status = "returned" =>
              /\ session.round2[i].out.e = ProofChallenge(session.round2[i].out)
              /\ session.round2[i].asked = session.round2[i].out.e
              /\ session.round2[i].out.z =
                     (session.round1[i].state.k
                        + session.round2[i].out.e * session.round1[i].state.wi) % N
        /\ (/\ session.protocol = "aggregated"
            /\ session.round2[i].status # "pending"
            /\ session.round2[i].asked #
                   ProofChallenge(DLEQProof(session.challenge.C, session.challenge.W,
                                            PublicPoint, session.challenge.A1,
                                            session.challenge.A2, x, 0))) =>
              (session.round2[i].status = "raised" /\ session.round2[i].out = NoRound2)

C10_Witness ==
    /\ session.protocol = "aggregated"
    /\ Len(session.round2) = MaxNodes
    /\ \A i \in 1..Len(session.round2) :
          /\ session.round2[i].status = "raised"
          /\ session.round2[i].asked # Aggregate(Round1Messages, x, PublicPoint).e

(***************************************************************************)
(* Properties of the VOLE prover                                           *)
(***************************************************************************)
\* The sum over the nodes of k_i + e * w_i mod N.
RECURSIVE SumOfResponses(_, _)
SumOfResponses(e, i) ==
    IF i > Len(session.round1) THEN 0
    ELSE session.round1[i].state.k + e * session.round1[i].state.wi
         + SumOfResponses(e, i + 1)

InteractiveResponse ==
    SumOfResponses(ProofChallenge(DLEQProof(sumPoints([i \in 1..Len(session.round1) |->
                                                          session.round1[i].message.Ci]),
                                            sumPoints([i \in 1..Len(session.round1) |->
                                                          session.round1[i].message.Wi]),
                                            PublicPoint,
                                            sumPoints([i \in 1..Len(session.round1) |->
                                                          session.round1[i].message.A1i]),
                                            sumPoints([i \in 1..Len(session.round1) |->
                                                          session.round1[i].message.A2i]),
                                            x, 0)), 1) % N

ByteBits == 2
WordBits == 4
NonceBits == 1

\* Math.ceil(length / 8) bytes, counted in bits.
PackedBits(length) == ByteBits * ((length + ByteBits - 1) \div ByteBits)

\* randomBytes(n): every byte string of that size.
randomBytes(bits) == [1..bits -> {0, 1}]

\* BitVector.random(length): the bits past length are random too.
BitVectorRandom(length) ==
    {[length |-> length, data |-> d] : d \in randomBytes(PackedBits(length))}

\* new BitVector(n) followed by set(i, bits[i]) for every i < n: the bits
\* past n stay zero.
NewBitVector(bits) ==
    [length |-> Len(bits),
     data |-> [i \in 1..PackedBits(Len(bits)) |-> IF i <= Len(bits) THEN bits[i] ELSE 0]]

\* BitVector.get(i): a boolean.
BitVectorGet(v, i) == v.data[i + 1] = 1

\* xorBytes(a, b)
xorBytes(a, b) ==
    IF Len(a) # Len(b) THEN Thrown ELSE [i \in 1..Len(a) |-> (a[i] + b[i]) % 2]

\* BitVector.xor(other): the xor of the whole byte strings.
BitVectorXor(a, b) ==
    IF a.length # b.length THEN Thrown
    ELSE [length |-> a.length, data |-> xorBytes(a.data, b.data)]

\* BitMatrix.random(rows, cols) without a seed; data[row * cols + col].
BitMatrixRandom(rows, cols) ==
    {[rows |-> rows, cols |-> cols, data |-> d] : d \in randomBytes(PackedBits(rows * cols))}

\* BitMatrix.row(row) and BitMatrix.column(col), indexes from 0.
BitMatrixRow(m, row) == NewBitVector([c \in 1..m.cols |-> m.data[row * m.cols + c]])
BitMatrixColumn(m, col) ==
    NewBitVector([r \in 1..m.rows |-> m.data[(r - 1) * m.cols + col + 1]])

\* scalarFromBits(choiceBits, offset, bitLength): the sum of bit[offset + j] * 2^j
\* over j < min(bitLength, choiceBits.length - offset), mod N.
RECURSIVE scalarFromBits(_, _, _)
scalarFromBits(choiceBits, offset, bitLength) ==
    LET maxBits == IF bitLength < choiceBits.length - offset THEN bitLength
                   ELSE choiceBits.length - offset
    IN  IF maxBits <= 0 THEN 0
        ELSE mod(scalarFromBits(choiceBits, offset, maxBits - 1)
                 + (IF BitVectorGet(choiceBits, offset + maxBits - 1)
                    THEN 2 ^ (maxBits - 1) ELSE 0), N)

(***************************************************************************)
(* crypto.ts: byte conversions, hash, HKDF, ECDH; ChaCha20                 *)
(***************************************************************************)
\* bigIntToBytes(value, 32) (numberToBytesBE) and bytesToBigInt
\* (bytesToNumberBE): big-endian.
bigIntToBytes(value, bits) == [i \in 1..bits |-> (value \div (2 ^ (bits - i))) % 2]

RECURSIVE bytesToBigInt(_)
bytesToBigInt(bytes) ==
    IF Len(bytes) = 0 THEN 0
    ELSE 2 * bytesToBigInt(SubSeq(bytes, 1, Len(bytes) - 1)) + bytes[Len(bytes)]

\* hash(data): the Keccak-256 digest as a byte string.
hash(data) == bigIntToBytes(keccak256(data), WordBits)

\* hkdfKeccak(ikm, salt, info, length): a deterministic expansion of
\* (ikm, salt, info) to the length asked for, one digest per block.
RECURSIVE hkdfKeccak(_, _, _, _)
hkdfKeccak(ikm, salt, info, bits) ==
    IF bits <= 0 THEN <<>>
    ELSE LET block == (bits - 1) \div WordBits + 1
             rest == (block - 1) * WordBits
         IN  hkdfKeccak(ikm, salt, info, rest)
             \o SubSeq(hash(<<block>> \o salt \o info \o ikm), 1, bits - rest)

\* ecdh(secret, peer): the x coordinate of secret * peer, 32 bytes.
ecdh(sec, peer) ==
    LET shared == ecMul(peer, sec)
    IN  IF shared = Thrown \/ shared = Unspecified THEN shared
        ELSE bigIntToBytes(shared[1], WordBits)

\* chacha20(key, nonce, data): the xor of data with the key stream of
\* (key, nonce); encryption and decryption are the same operation.
chacha20(key, nonce, data) ==
    xorBytes(data, [i \in 1..Len(data) |-> keccak256(<<i>> \o key \o nonce) % 2])

(***************************************************************************)
(* ot.ts: the base 1-out-of-2 OT (Chou-Orlandi).  A point is a pair, so    *)
(* the arrays Bx, By are the one sequence B.                               *)
(***************************************************************************)
\* deriveOTParams(senderSk)
deriveOTParams(senderSk) == [senderSk |-> senderSk, A |-> ecMul(G, senderSk)]

\* A receiver that sends b * G whatever its choice bit.
otReceiverInitPlain(choices, params, b) ==
    LET B == [i \in 1..choices.length |-> ecMul(G, b[i])]
    IN  [state |-> [b |-> b, choices |-> choices, B |-> B], message |-> [B |-> B]]

\* otReceiverInit(choices, params), b being the scalars randomScalar() returns.
otReceiverInit(choices, params, b) ==
    LET B == [i \in 1..choices.length |->
                 IF BitVectorGet(choices, i - 1) THEN ecAdd(params.A, ecMul(G, b[i]))
                 ELSE ecMul(G, b[i])]
    IN  [state |-> [b |-> b, choices |-> choices, B |-> B], message |-> [B |-> B]]

\* hkdfKeccak(s, salt, 'ot-key-derivation', 64): the ChaCha20 key, then the
\* MAC key.
OTKeyMaterial(shared) == hkdfKeccak(shared, <<>>, <<2>>, 2 * WordBits)

\* otSenderEncrypt lines 165-214 for one OT: the response for the point B,
\* the messages m0, m1 and the nonces drawn.
OTResponse(B, m0, m1, params, nonce0, nonce1) ==
    LET keyMat0 == OTKeyMaterial(ecdh(params.senderSk, B))
        keyMat1 == OTKeyMaterial(ecdh(params.senderSk, ecSub(B, params.A)))
        c0 == chacha20(SubSeq(keyMat0, 1, WordBits), nonce0, m0)
        c1 == chacha20(SubSeq(keyMat1, 1, WordBits), nonce1, m1)
    IN  [c0 |-> c0, c1 |-> c1, nonce0 |-> nonce0, nonce1 |-> nonce1,
         tag0 |-> hash(SubSeq(keyMat0, WordBits + 1, 2 * WordBits) \o nonce0 \o c0),
         tag1 |-> hash(SubSeq(keyMat1, WordBits + 1, 2 * WordBits) \o nonce1 \o c1)]

\* otSenderEncrypt(message, m0s, m1s, params), nonces[i] being the pair of
\* nonces randomBytes(12) returns for OT i.
otSenderEncrypt(message, m0s, m1s, params, nonces) ==
    IF Len(m1s) # Len(m0s) \/ Len(message.B) # Len(m0s)
    THEN Raised("otSenderEncrypt: length mismatch between messages and payload arrays")
    ELSE IF \E i \in 1..Len(m0s) : ~isOnCurve(message.B[i])
    THEN Raised("OT sender: receiver point B is not on curve")
    ELSE Returned([responses |->
                      [i \in 1..Len(m0s) |->
                          OTResponse(message.B[i], m0s[i], m1s[i], params,
                                     nonces[i][1], nonces[i][2])]])

\* A receiver that decrypts without verifying the tag.
OTOpenUnchecked(choiceBit, b, response, params) ==
    chacha20(SubSeq(OTKeyMaterial(ecdh(b, params.A)), 1, WordBits),
             IF choiceBit THEN response.nonce1 ELSE response.nonce0,
             IF choiceBit THEN response.c1 ELSE response.c0)

\* otReceiverDecrypt lines 241-266 for one OT: the message, or Thrown when
\* the tag of the selected ciphertext is not the expected one.
OTOpen(choiceBit, b, response, params) ==
    LET cb == IF choiceBit THEN response.c1 ELSE response.c0
        nonceb == IF choiceBit THEN response.nonce1 ELSE response.nonce0
        tagb == IF choiceBit THEN response.tag1 ELSE response.tag0
        keyMat == OTKeyMaterial(ecdh(b, params.A))
    IN  IF hash(SubSeq(keyMat, WordBits + 1, 2 * WordBits) \o nonceb \o cb) # tagb
        THEN Thrown
        ELSE chacha20(SubSeq(keyMat, 1, WordBits), nonceb, cb)

\* otReceiverDecrypt(state, responses, params)
otReceiverDecrypt(state, responses, params) ==
    IF Len(state.b) # Len(responses) \/ Len(state.B) # Len(responses)
       \/ state.choices.length # Len(responses)
    THEN Raised("otReceiverDecrypt: length mismatch between state and responses")
    ELSE LET out == [i \in 1..Len(responses) |->
                        OTOpen(BitVectorGet(state.choices, i - 1), state.b[i],
                               responses[i], params)]
         IN  IF \E i \in 1..Len(responses) : out[i] = Thrown
             THEN Raised("OT receiver: MAC verification failed")
             ELSE Returned(out)

\* otExecute(choices, m0s, m1s, params)
otExecute(choices, m0s, m1s, params, b, nonces) ==
    LET init == otReceiverInit(choices, params, b)
        sent == otSenderEncrypt(init.message, m0s, m1s, params, nonces)
    IN  IF sent.raised THEN sent
        ELSE otReceiverDecrypt(init.state, sent.value.responses, params)

(***************************************************************************)
(* The base OT run on a batch                                              *)
(***************************************************************************)
\* Model bounds: the largest batch of OTs.
MaxOTs == 2

\* The outcomes of the random source that the runs follow: for each seed,
\* the scalar randomScalar() returns for OT i and the two nonces
\* randomBytes(12) returns for it.  Every scalar of [1, N) and every pair of
\* nonces is the outcome for the first OT under some seed.
RandomScalars(seed, n) == [i \in 1..n |-> mod(seed + i - 1, N - 1) + 1]
RandomNonces(seed, n) ==
    [i \in 1..n |-> << <<(seed + i) % 2>>, <<((seed + i) \div 2) % 2>> >>]

\* The messages of one OT: two different one-byte payloads.
Payloads == {[m0 |-> <<0, 1>>, m1 |-> <<1, 0>>], [m0 |-> <<1, 1>>, m1 |-> <<0, 1>>]}

\* A response changed on its way to the receiver.  change.slot names the
\* ciphertext (0 or 1), change.field the part and change.bit the bit that
\* is flipped; with change.retag the tag of the slot is computed again over
\* the changed nonce and ciphertext, with the MAC key the sender derived.
AlteredResponse(response, B, params, change) ==
    LET keyMat == OTKeyMaterial(ecdh(params.senderSk,
                                     IF change.slot = 1 THEN ecSub(B, params.A) ELSE B))
        c == IF change.slot = 1 THEN response.c1 ELSE response.c0
        nonce == IF change.slot = 1 THEN response.nonce1 ELSE response.nonce0
        tag == IF change.slot = 1 THEN response.tag1 ELSE response.tag0
        c2 == IF change.field = "c" THEN [c EXCEPT ![change.bit] = 1 - @] ELSE c
        nonce2 == IF change.field = "nonce" THEN [nonce EXCEPT ![change.bit] = 1 - @]
                  ELSE nonce
        tag2 == IF change.field = "tag" THEN [tag EXCEPT ![change.bit] = 1 - @]
                ELSE IF change.retag
                THEN hash(SubSeq(keyMat, WordBits + 1, 2 * WordBits) \o nonce2 \o c2)
                ELSE tag
    IN  IF change.slot = 1
        THEN [response EXCEPT !.c1 = c2, !.nonce1 = nonce2, !.tag1 = tag2]
        ELSE [response EXCEPT !.c0 = c2, !.nonce0 = nonce2, !.tag0 = tag2]

\* The changes followed: any bit of the ciphertext, of the nonce or of the
\* first byte of the tag of one slot of one OT.
Changes ==
    {ch \in [ot : 1..MaxOTs, slot : {0, 1}, field : {"c", "nonce", "tag"},
             bit : 1..ByteBits, retag : BOOLEAN] :
        /\ ch.field = "nonce" => ch.bit <= NonceBits
        /\ ch.field = "tag" => ~ch.retag}

\* otExecute on the batch of the arguments.
OtExecute ==
    /\ offline.fn = "none"
    /\ offline.args.layer = "ot"
    /\ \E seed \in 0..(N - 2) :
          offline' = [offline EXCEPT
              !.fn = "otExecute",
              !.out = otExecute(offline.args.choices, offline.args.m0s, offline.args.m1s,
                                deriveOTParams(offline.args.senderSk),
                                RandomScalars(seed, offline.args.choices.length),
                                RandomNonces(seed, offline.args.choices.length))]
    /\ UNCHANGED <<x, poly, secret, single, vproof, origin, verdict, session, pool>>

\* otReceiverInit and otSenderEncrypt on the batch, then otReceiverDecrypt
\* on the responses of which one was changed.
OtReceiverDecrypt ==
    /\ offline.fn = "none"
    /\ offline.args.layer = "ot"
    /\ \E seed \in 0..(N - 2) :
          \E params \in {deriveOTParams(offline.args.senderSk)} :
          \E init \in {otReceiverInit(offline.args.choices, params,
                                      RandomScalars(seed, offline.args.choices.length))} :
          \E sent \in {otSenderEncrypt(init.message, offline.args.m0s, offline.args.m1s,
                                       params,
                                       RandomNonces(seed, offline.args.choices.length))} :
          \E change \in Changes :
             /\ change.ot <= offline.args.choices.length
             /\ (change.slot = 1) # BitVectorGet(offline.args.choices, change.ot - 1)
                    => change.field = "c" /\ change.bit = 1 /\ ~change.retag
             /\ \E received \in {[sent.value.responses EXCEPT ![change.ot] =
                                     AlteredResponse(@, init.message.B[change.ot], params,
                                                     change)]} :
                offline' = [fn |-> "otReceiverDecrypt",
                            args |-> [layer |-> "ot",
                                      senderSk |-> offline.args.senderSk,
                                      choices |-> offline.args.choices,
                                      m0s |-> offline.args.m0s,
                                      m1s |-> offline.args.m1s,
                                      B |-> init.message.B,
                                      change |-> change,
                                      sent |-> sent.value.responses,
                                      received |-> received],
                            out |-> otReceiverDecrypt(init.state, received, params)]
    /\ UNCHANGED <<x, poly, secret, single, vproof, origin, verdict, session, pool>>

InitOT ==
    /\ x = 0
    /\ poly = <<>>
    /\ secret = 0
    /\ single = NoCall
    /\ vproof = NoProof
    /\ origin = "none"
    /\ verdict = "none"
    /\ session = NoSession
    /\ pool = NoPool
    /\ \E n \in 1..MaxOTs :
       \E senderSk \in 1..(N - 1), bits \in [1..n -> {0, 1}],
          payloads \in [1..n -> Payloads] :
          offline = [fn |-> "none",
                     args |-> [layer |-> "ot", senderSk |-> senderSk,
                               choices |-> NewBitVector(bits),
                               m0s |-> [i \in 1..n |-> payloads[i].m0],
                               m1s |-> [i \in 1..n |-> payloads[i].m1]],
                     out |-> <<>>]

NextOT == OtExecute \/ OtReceiverDecrypt

SpecOT == InitOT /\ [][NextOT]_vars

(***************************************************************************)
(* Properties of the base OT                                               *)
(***************************************************************************)
\* C14: base OT round trip.  For every sender secret a in [1, N), every batch
\* of choice bits and every receiver scalars, otExecute returns for every i
\* the message m0s[i] when choices[i] = 0 and m1s[i] when choices[i] = 1.
C14_RoundTrip ==
    offline.fn = "otExecute" =>
        /\ ~offline.out.raised
        /\ Len(offline.out.value) = offline.args.choices.length
        /\ \A i \in 1..offline.args.choices.length :
              offline.out.value[i] = IF offline.args.choices.data[i] = 1
                                     THEN offline.args.m1s[i] ELSE offline.args.m0s[i]

C14_Witness ==
    /\ offline.fn = "otExecute"
    /\ offline.args.choices.length = MaxOTs
    /\ offline.args.choices.data[1] = 1
    /\ offline.args.choices.data[2] = 0
    /\ ~offline.out.raised
    /\ offline.out.value[1] = offline.args.m1s[1]
    /\ offline.out.value[2] = offline.args.m0s[2]
    /\ offline.args.m1s[1] # offline.args.m0s[1]

\* The selected part of response i: ciphertext, nonce and tag.
SelectedPart(responses, i) ==
    IF offline.args.choices.data[i] = 1
    THEN <<responses[i].c1, responses[i].nonce1, responses[i].tag1>>
    ELSE <<responses[i].c0, responses[i].nonce0, responses[i].tag0>>

\* The tag of the selected nonce and ciphertext of response i under the MAC
\* key the sender derived for that slot.
SenderTag(responses, i) ==
    LET params == deriveOTParams(offline.args.senderSk)
        B == offline.args.B[i]
        keyMat == OTKeyMaterial(ecdh(params.senderSk,
                                     IF offline.args.choices.data[i] = 1
                                     THEN ecSub(B, params.A) ELSE B))
    IN  hash(SubSeq(keyMat, WordBits + 1, 2 * WordBits)
             \o SelectedPart(responses, i)[2] \o SelectedPart(responses, i)[1])

\* C15 as stated: if for some OT the selected ciphertext, nonce or tag
\* differs from what otSenderEncrypt produced, otReceiverDecrypt raises a
\* MAC failure and returns no message.
C15_AnyChangeRaises ==
    (/\ offline.fn = "otReceiverDecrypt"
     /\ \E i \in 1..offline.args.choices.length :
           SelectedPart(offline.args.received, i) # SelectedPart(offline.args.sent, i))
        => /\ offline.out.raised
           /\ offline.out.error = "OT receiver: MAC verification failed"

\* C15: otReceiverDecrypt raises a MAC failure, and returns no message for
\* any OT of the batch, exactly when for some OT the selected tag is not the
\* Keccak-256 tag of the selected nonce and ciphertext as received under the
\* MAC key of that slot; otherwise it returns, for every OT, the selected
\* ciphertext as received decrypted, the sent message where the selected
\* part is unchanged.
C15_RaisesOnTagMismatch ==
    offline.fn = "otReceiverDecrypt" =>
        IF \E i \in 1..offline.args.choices.length :
               SelectedPart(offline.args.received, i)[3] # SenderTag(offline.args.received, i)
        THEN /\ offline.out.raised
             /\ offline.out.error = "OT receiver: MAC verification failed"
             /\ offline.out.value = FALSE
        ELSE /\ ~offline.out.raised
             /\ \A i \in 1..offline.args.choices.length :
                   SelectedPart(offline.args.received, i) = SelectedPart(offline.args.sent, i)
                       => offline.out.value[i] = IF offline.args.choices.data[i] = 1
                                                 THEN offline.args.m1s[i]
                                                 ELSE offline.args.m0s[i]

C15_Witness ==
    /\ offline.fn = "otReceiverDecrypt"
    /\ offline.args.choices.length = MaxOTs
    /\ offline.args.change.ot = 2
    /\ offline.args.change.field = "c"
    /\ ~offline.args.change.retag
    /\ SelectedPart(offline.args.received, 2) # SelectedPart(offline.args.sent, 2)
    /\ SelectedPart(offline.args.received, 1) = SelectedPart(offline.args.sent, 1)
    /\ offline.out.raised

(***************************************************************************)
(* Beaver's trick: random OT keys into chosen OTs (beaver.ts)              *)
(***************************************************************************)
\* `choice === 0` at beaver.ts line 88, where choice is the boolean that
\* BitVector.get returns: strict equality of a boolean and a number is
\* false for either boolean.
StrictEqualsZero(choice) == FALSE

\* beaverEncryptFromRandomOT(k0, k1, m0, m1, tag)
beaverEncryptFromRandomOT(k0, k1, m0, m1, tag) ==
    IF Len(k1) # Len(k0) \/ Len(m0) # Len(k0) \/ Len(m1) # Len(k0)
    THEN Raised("beaverEncryptFromRandomOT: array length mismatch")
    ELSE IF \E i \in 1..Len(k0) :
                \/ Len(hash(tag \o k0[i])) # Len(m0[i])
                \/ Len(hash(tag \o k1[i])) # Len(m1[i])
    THEN Raised("beaverEncryptFromRandomOT: mask length mismatch")
    ELSE Returned([c0 |-> [i \in 1..Len(k0) |-> xorBytes(m0[i], hash(tag \o k0[i]))],
                   c1 |-> [i \in 1..Len(k0) |-> xorBytes(m1[i], hash(tag \o k1[i]))]])

\* beaverDecryptFromRandomOT(choices, keys, c0, c1, tag)
beaverDecryptFromRandomOT(choices, keys, c0, c1, tag) ==
    LET ct(i) == IF StrictEqualsZero(BitVectorGet(choices, i - 1)) THEN c0[i] ELSE c1[i]
    IN  IF Len(keys) # choices.length \/ Len(c0) # choices.length
           \/ Len(c1) # choices.length
        THEN Raised("beaverDecryptFromRandomOT: array length mismatch")
        ELSE IF \E i \in 1..choices.length : Len(hash(tag \o keys[i])) # Len(ct(i))
        THEN Raised("beaverDecryptFromRandomOT: mask length mismatch")
        ELSE Returned([i \in 1..choices.length |-> xorBytes(ct(i), hash(tag \o keys[i]))])

\* The tag 'role-ot' of role.ts line 384, as a byte string.
ROLE_OT_TAG == <<1, 1>>

\* The random OT keys of one OT and its two payloads.
BeaverInputs ==
    [k0 : {bigIntToBytes(v, WordBits) : v \in {0, 5}},
     k1 : {bigIntToBytes(v, WordBits) : v \in {5, 10}},
     m0 : {bigIntToBytes(v, WordBits) : v \in {3, 12}},
     m1 : {bigIntToBytes(v, WordBits) : v \in {3, 6}}]

\* The sender masks its payloads.
BeaverEncrypt ==
    /\ offline.fn = "none"
    /\ offline.args.layer = "beaver"
    /\ offline' = [offline EXCEPT
                     !.fn = "beaverEncryptFromRandomOT",
                     !.out = beaverEncryptFromRandomOT(offline.args.k0, offline.args.k1,
                                                       offline.args.m0, offline.args.m1,
                                                       offline.args.tag)]
    /\ UNCHANGED <<x, poly, secret, single, vproof, origin, verdict, session, pool>>

\* The receiver unmasks with the key of its choice, keys[i] = k_{choices[i]}[i].
BeaverDecrypt ==
    /\ offline.fn = "beaverEncryptFromRandomOT"
    /\ ~offline.out.raised
    /\ LET n == offline.args.choices.length
           keys == [i \in 1..n |->
                       IF BitVectorGet(offline.args.choices, i - 1)
                       THEN offline.args.k1[i] ELSE offline.args.k0[i]]
       IN  offline' = [offline EXCEPT
                         !.fn = "beaverDecryptFromRandomOT",
                         !.out = beaverDecryptFromRandomOT(offline.args.choices, keys,
                                                           offline.out.value.c0,
                                                           offline.out.value.c1,
                                                           offline.args.tag)]
    /\ UNCHANGED <<x, poly, secret, single, vproof, origin, verdict, session, pool>>

InitBeaver ==
    /\ x = 0
    /\ poly = <<>>
    /\ secret = 0
    /\ single = NoCall
    /\ vproof = NoProof
    /\ origin = "none"
    /\ verdict = "none"
    /\ session = NoSession
    /\ pool = NoPool
    /\ \E n \in 1..MaxOTs :
        \E bits \in [1..n -> {0, 1}] :
         \E inputs \in [1..n -> BeaverInputs] :
            offline = [fn |-> "none",
                       args |-> [layer |-> "beaver",
                                 choices |-> NewBitVector(bits),
                                 k0 |-> [i \in 1..n |-> inputs[i].k0],
                                 k1 |-> [i \in 1..n |-> inputs[i].k1],
                                 m0 |-> [i \in 1..n |-> inputs[i].m0],
                                 m1 |-> [i \in 1..n |-> inputs[i].m1],
                                 tag |-> ROLE_OT_TAG],
                       out |-> <<>>]

NextBeaver == BeaverEncrypt \/ BeaverDecrypt

SpecBeaver == InitBeaver /\ [][NextBeaver]_vars

\* C13: beaverDecryptFromRandomOT, given the choices, the keys of the
\* choices and the ciphertexts of beaverEncryptFromRandomOT, returns m0[i]
\* where choice i is 0 and m1[i] where choice i is 1.
C13_BeaverRoundTrip ==
    offline.fn = "beaverDecryptFromRandomOT" =>
        /\ ~offline.out.raised
        /\ \A i \in 1..offline.args.choices.length :
              offline.out.value[i] =
                  IF BitVectorGet(offline.args.choices, i - 1)
                  THEN offline.args.m1[i] ELSE offline.args.m0[i]

(***************************************************************************)
(* IKNP OT extension (iknp.ts)                                             *)
(***************************************************************************)
\* hashMatrixRowsKeccak(matrix)
hashMatrixRowsKeccak(matrix) ==
    [i \in 1..matrix.rows |-> hash(BitMatrixRow(matrix, i - 1).data)]

\* iknpSenderRound1(numOTs, k, params), c being what BitVector.random(k)
\* returns and b the scalars randomScalar() returns in otReceiverInit.
iknpSenderRound1(numOTs, k, params, c, b) ==
    IF numOTs <= 0 THEN Raised("iknpSenderRound1: numOTs must be positive")
    ELSE IF k <= 0 THEN Raised("iknpSenderRound1: k must be positive")
    ELSE LET init == otReceiverInit(c, params, b)
         IN  Returned([state |-> [numOTs |-> numOTs, k |-> k, c |-> c,
                                  baseState |-> init.state],
                       message |-> [baseMessage |-> init.message]])

\* iknpReceiverRound1(numOTs, senderMsg, params, choices), T being what
\* BitMatrix.random(numOTs, k) returns and nonces the nonces drawn in
\* otSenderEncrypt.
iknpReceiverRound1(numOTs, senderMsg, params, choices, T, nonces) ==
    LET k == Len(senderMsg.baseMessage.B)
        m0s == [j \in 1..k |-> BitMatrixColumn(T, j - 1).data]
        m1s == [j \in 1..k |-> BitVectorXor(BitMatrixColumn(T, j - 1), choices).data]
        sent == otSenderEncrypt(senderMsg.baseMessage, m0s, m1s, params, nonces)
    IN  IF numOTs <= 0 THEN Raised("iknpReceiverRound1: numOTs must be positive")
        ELSE IF k <= 0
        THEN Raised("iknpReceiverRound1: senderMsg must contain at least one base message")
        ELSE IF choices.length # numOTs
        THEN Raised("iknpReceiverRound1: choices.length must equal numOTs")
        ELSE IF sent.raised THEN sent
        ELSE Returned([state |-> [numOTs |-> numOTs, k |-> k, choices |-> choices, T |-> T],
                       message |-> [baseResponses |-> sent.value.responses],
                       output |-> [choices |-> choices, keys |-> hashMatrixRowsKeccak(T)]])

\* iknpSenderRound2 lines 247-252 for row i of Q (from 1): tiBits is
\* Q.row(i), and tiBits.xor(c) is the xor of the two whole byte strings.
IKNPSenderKeys(Qcols, c, k, i) ==
    LET tiBits == NewBitVector([j \in 1..k |-> Qcols[j][i]])
    IN  [k0 |-> hash(tiBits.data), k1 |-> hash(BitVectorXor(tiBits, c).data)]

\* iknpSenderRound2(state, receiverMsg, params)
iknpSenderRound2(state, receiverMsg, params) ==
    LET opened == otReceiverDecrypt(state.baseState, receiverMsg.baseResponses, params)
    IN  IF Len(receiverMsg.baseResponses) # state.k
        THEN Raised("iknpSenderRound2: unexpected number of base responses from receiver")
        ELSE IF Len(state.baseState.b) # state.k \/ state.baseState.choices.length # state.k
        THEN Raised("iknpSenderRound2: invalid sender state (baseState size)")
        ELSE IF opened.raised THEN opened
        ELSE IF \E j \in 1..state.k : Len(opened.value[j]) # PackedBits(state.numOTs)
        THEN Raised("iknpSenderRound2: unexpected column length from base OT")
        ELSE Returned([k0 |-> [i \in 1..state.numOTs |->
                                  IKNPSenderKeys(opened.value, state.c, state.k, i).k0],
                       k1 |-> [i \in 1..state.numOTs |->
                                  IKNPSenderKeys(opened.value, state.c, state.k, i).k1]])

\* The security parameters k of the runs: one that fills whole bytes and
\* one that does not.
SecurityParameters == {ByteBits - 1, ByteBits}

\* Round 1 of the sender.
IknpSenderRound1 ==
    /\ offline.fn = "none"
    /\ offline.args.layer = "iknp"
    /\ \E c \in BitVectorRandom(offline.args.k) :
        \E seed \in {0, 3} :
            offline' = [offline EXCEPT
                          !.fn = "iknpSenderRound1",
                          !.out = [sender |-> iknpSenderRound1(
                                                  offline.args.numOTs, offline.args.k,
                                                  deriveOTParams(offline.args.senderSk), c,
                                                  RandomScalars(seed, offline.args.k))]]
    /\ UNCHANGED <<x, poly, secret, single, vproof, origin, verdict, session, pool>>

\* Round 1 of the receiver, with choice bits of its own or those that
\* BitVector.random(numOTs) returns.
IknpReceiverRound1 ==
    /\ offline.fn = "iknpSenderRound1"
    /\ ~offline.out.sender.raised
    /\ \E choices \in BitVectorRandom(offline.args.numOTs) :
        \E T \in BitMatrixRandom(offline.args.numOTs, offline.args.k) :
            offline' = [offline EXCEPT
                          !.fn = "iknpReceiverRound1",
                          !.out = [sender |-> offline.out.sender,
                                   receiver |-> iknpReceiverRound1(
                                                    offline.args.numOTs,
                                                    offline.out.sender.value.message,
                                                    deriveOTParams(offline.args.senderSk),
                                                    choices, T,
                                                    RandomNonces(0, offline.args.k))]]
    /\ UNCHANGED <<x, poly, secret, single, vproof, origin, verdict, session, pool>>

\* Round 2 of the sender.
IknpSenderRound2 ==
    /\ offline.fn = "iknpReceiverRound1"
    /\ ~offline.out.receiver.raised
    /\ offline' = [offline EXCEPT
                     !.fn = "iknpSenderRound2",
                     !.out = [sender |-> offline.out.sender,
                              receiver |-> offline.out.receiver,
                              keys |-> iknpSenderRound2(
                                           offline.out.sender.value.state,
                                           offline.out.receiver.value.message,
                                           deriveOTParams(offline.args.senderSk))]]
    /\ UNCHANGED <<x, poly, secret, single, vproof, origin, verdict, session, pool>>

InitIKNP ==
    /\ x = 0
    /\ poly = <<>>
    /\ secret = 0
    /\ single = NoCall
    /\ vproof = NoProof
    /\ origin = "none"
    /\ verdict = "none"
    /\ session = NoSession
    /\ pool = NoPool
    /\ \E numOTs \in 1..MaxOTs :
        \E k \in SecurityParameters :
         \E senderSk \in 1..(N - 1) :
            offline = [fn |-> "none",
                       args |-> [layer |-> "iknp", numOTs |-> numOTs, k |-> k,
                                 senderSk |-> senderSk],
                       out |-> <<>>]

NextIKNP == IknpSenderRound1 \/ IknpReceiverRound1 \/ IknpSenderRound2

SpecIKNP == InitIKNP /\ [][NextIKNP]_vars

\* C12: after the three rounds the receiver's keys[i] is the sender's k0[i]
\* where choices[i] = 0 and the sender's k1[i] where choices[i] = 1, for
\* every selector vector BitVector.random(k) can return.
C12_KeyAgreement ==
    offline.fn = "iknpSenderRound2" =>
        /\ ~offline.out.keys.raised
        /\ \A i \in 1..offline.args.numOTs :
              offline.out.receiver.value.output.keys[i] =
                  IF BitVectorGet(offline.out.receiver.value.output.choices, i - 1)
                  THEN offline.out.keys.value.k1[i]
                  ELSE offline.out.keys.value.k0[i]

(***************************************************************************)
(* Random OLE pools (role.ts)                                              *)
(***************************************************************************)
\* The tag 'role-a' of role.ts line 355, as a byte string.
ROLE_A_TAG == <<1, 0>>

\* scalarFromSeed(tag, seed)
scalarFromSeed(tag, seed) == mod(bytesToBigInt(hash(tag \o seed)), N)

\* ensureInjectiveBitLength(bitLength): the error it throws, or "none".
ensureInjectiveBitLength(bitLength) ==
    IF bitLength <= 0 THEN "ROLE: bitLength must be positive"
    ELSE IF 2 ^ bitLength >= N
    THEN "ROLE: bitLength too large; require 2^bitLength < N for injective mapping into F_N"
    ELSE "none"

\* BitMatrix.random(rows, cols, seed): the matrix derived from the seed.
BitMatrixFromSeed(rows, cols, seed) ==
    [rows |-> rows, cols |-> cols,
     data |-> hkdfKeccak(seed, <<>>, <<rows, cols>>, PackedBits(rows * cols))]

\* encodeInputsToChoices(xs, numOLEs, bitLength)
encodeInputsToChoices(xs, numOLEs, bitLength) ==
    IF Len(xs) # numOLEs
    THEN Raised("encodeInputsToChoices: xs.length must equal numOLEs")
    ELSE IF \E i \in 1..numOLEs : xs[i] < 0 \/ xs[i] >= 2 ^ bitLength
    THEN Raised("encodeInputsToChoices: x out of range for configured bitLength")
    ELSE Returned(NewBitVector([t \in 1..(numOLEs * bitLength) |->
                      (xs[(t - 1) \div bitLength + 1] \div 2 ^ ((t - 1) % bitLength)) % 2]))

\* roleSenderRound1 lines 222-228, for the outcome of iknpSenderRound1.
ROLESenderStarted(params, started) ==
    IF started.raised THEN started
    ELSE Returned([state |-> [params |-> params, iknpState |-> started.value.state],
                   message |-> [params |-> params, iknp |-> started.value.message]])

\* roleSenderRound1(params), c and b as in iknpSenderRound1.
roleSenderRound1(params, c, b) ==
    IF params.numOLEs <= 0 THEN Raised("roleSenderRound1: numOLEs must be positive")
    ELSE IF ensureInjectiveBitLength(params.bitLength) # "none"
    THEN Raised(ensureInjectiveBitLength(params.bitLength))
    ELSE IF params.k <= 0 THEN Raised("roleSenderRound1: k must be positive")
    ELSE ROLESenderStarted(params,
                           iknpSenderRound1(params.numOLEs * params.bitLength, params.k,
                                            params.otParams, c, b))

\* roleReceiverRound1WithInputs lines 288-299, for the outcome of
\* iknpReceiverRound1.
ROLEReceiverStarted(params, started) ==
    IF started.raised THEN started
    ELSE Returned([state |-> [params |-> params,
                              iknpState |-> started.value.state,
                              iknpOutput |-> started.value.output,
                              choices |-> started.value.output.choices],
                   message |-> [iknp |-> started.value.message]])

\* roleReceiverRound1WithInputs lines 266-299, choices being the outcome of
\* encodeInputsToChoices or the choice bits iknpReceiverRound1 draws.
ROLEReceiverStart(params, senderMsg, choices, T, nonces) ==
    IF params.numOLEs <= 0 THEN Raised("roleReceiverRound1: numOLEs must be positive")
    ELSE IF ensureInjectiveBitLength(params.bitLength) # "none"
    THEN Raised(ensureInjectiveBitLength(params.bitLength))
    ELSE IF params.k <= 0 THEN Raised("roleReceiverRound1: k must be positive")
    ELSE IF \/ senderMsg.params.numOLEs # params.numOLEs
            \/ senderMsg.params.bitLength # params.bitLength
            \/ senderMsg.params.k # params.k
    THEN Raised("roleReceiverRound1: sender parameters mismatch")
    ELSE IF choices.raised THEN choices
    ELSE ROLEReceiverStarted(params,
                             iknpReceiverRound1(params.numOLEs * params.bitLength,
                                                senderMsg.iknp, params.otParams,
                                                choices.value, T, nonces))

\* roleReceiverRound1(params, senderMsg), r being what BitVector.random returns.
roleReceiverRound1(params, senderMsg, r, T, nonces) ==
    ROLEReceiverStart(params, senderMsg, Returned(r), T, nonces)

\* roleReceiverRound1WithInputs(params, senderMsg, xs)
roleReceiverRound1WithInputs(params, senderMsg, xs, T, nonces) ==
    ROLEReceiverStart(params, senderMsg,
                      encodeInputsToChoices(xs, params.numOLEs, params.bitLength), T, nonces)

\* The inner loops of rounds 2: the sum of values[base + 1 .. base + j],
\* reduced mod N at every step.
RECURSIVE ROLEAccumulate(_, _, _)
ROLEAccumulate(values, base, j) ==
    IF j = 0 THEN 0 ELSE mod(ROLEAccumulate(values, base, j - 1) + values[base + j], N)

\* roleSenderRound2 lines 385-404, for the coefficients a, the masks r and
\* the outcome of beaverEncryptFromRandomOT.
ROLESenderPool(params, a, r, sent) ==
    IF sent.raised THEN sent
    ELSE Returned([state |-> [params |-> params, nextIndex |-> 0, a |-> a,
                              b |-> [i \in 1..params.numOLEs |->
                                        ROLEAccumulate(r, (i - 1) * params.bitLength,
                                                       params.bitLength)]],
                   message |-> sent.value])

\* roleSenderRound2 lines 349-391, for the IKNP keys, the coefficients a
\* and the masks r: m0 = r and m1 = r + a * 2^j.
ROLESenderPayloads(params, k0, k1, a, r) ==
    ROLESenderPool(params, a, r,
        beaverEncryptFromRandomOT(
            k0, k1,
            [t \in 1..Len(r) |-> bigIntToBytes(mod(r[t], N), WordBits)],
            [t \in 1..Len(r) |->
                bigIntToBytes(mod(mod(r[t] + a[(t - 1) \div params.bitLength + 1]
                                             * 2 ^ ((t - 1) % params.bitLength), N), N),
                              WordBits)],
            ROLE_OT_TAG))

\* The masks r of lines 339-365 for the matrix Rmat.
ROLEMasks(Rmat) == [t \in 1..Rmat.rows |-> mod(bytesToBigInt(BitMatrixRow(Rmat, t - 1).data), N)]

\* roleSenderRound2 lines 329-356, for the outcome of iknpSenderRound2.
ROLESenderKeys(params, iknpOut) ==
    IF iknpOut.raised THEN iknpOut
    ELSE IF \/ Len(iknpOut.value.k0) # params.numOLEs * params.bitLength
            \/ Len(iknpOut.value.k1) # params.numOLEs * params.bitLength
    THEN Raised("roleSenderRound2: IKNP sender output size mismatch")
    ELSE ROLESenderPayloads(
             params, iknpOut.value.k0, iknpOut.value.k1,
             [i \in 1..params.numOLEs |->
                 scalarFromSeed(ROLE_A_TAG,
                                iknpOut.value.k0[(i - 1) * params.bitLength + 1]
                                \o iknpOut.value.k1[(i - 1) * params.bitLength + 1])],
             ROLEMasks(BitMatrixFromSeed(params.numOLEs * params.bitLength, WordBits,
                                         hash(ROLE_OT_TAG \o iknpOut.value.k0[1]
                                              \o iknpOut.value.k1[1]))))

\* roleSenderRound2(state1, receiverMsg)
roleSenderRound2(state1, receiverMsg) ==
    ROLESenderKeys(state1.params,
                   iknpSenderRound2(state1.iknpState, receiverMsg.iknp, state1.params.otParams))

\* roleReceiverRound2 lines 448-469, for the outcome of
\* beaverDecryptFromRandomOT.
ROLEReceiverPool(state1, perOtValues) ==
    IF perOtValues.raised THEN perOtValues
    ELSE Returned([params |-> state1.params, nextIndex |-> 0,
                   x |-> [i \in 1..state1.params.numOLEs |->
                             scalarFromBits(state1.choices, (i - 1) * state1.params.bitLength,
                                            state1.params.bitLength)],
                   y |-> [i \in 1..state1.params.numOLEs |->
                             ROLEAccumulate([t \in 1..Len(perOtValues.value) |->
                                                mod(bytesToBigInt(perOtValues.value[t]), N)],
                                            (i - 1) * state1.params.bitLength,
                                            state1.params.bitLength)]])

\* roleReceiverRound2(state1, senderMsg)
roleReceiverRound2(state1, senderMsg) ==
    IF state1.choices.length # state1.params.numOLEs * state1.params.bitLength
    THEN Raised("roleReceiverRound2: invalid choices length")
    ELSE IF Len(state1.iknpOutput.keys) # state1.params.numOLEs * state1.params.bitLength
    THEN Raised("roleReceiverRound2: IKNP receiver keys size mismatch")
    ELSE IF \/ Len(senderMsg.c0) # state1.params.numOLEs * state1.params.bitLength
            \/ Len(senderMsg.c1) # state1.params.numOLEs * state1.params.bitLength
    THEN Raised("roleReceiverRound2: sender ciphertext size mismatch")
    ELSE ROLEReceiverPool(state1,
                          beaverDecryptFromRandomOT(state1.choices, state1.iknpOutput.keys,
                                                    senderMsg.c0, senderMsg.c1, ROLE_OT_TAG))

\* The pools of roleExtendRandom / roleExtendWithInputs, for the outcomes
\* of the two rounds 2.
ROLEPools(senderEnd, receiverEnd) ==
    IF receiverEnd.raised THEN receiverEnd
    ELSE Returned([sender |-> senderEnd.value.state, receiver |-> receiverEnd.value])

\* roleExtendRandom / roleExtendWithInputs from round 2 of the receiver on.
ROLEFinishReceiver(receiverStart, senderEnd) ==
    IF senderEnd.raised THEN senderEnd
    ELSE ROLEPools(senderEnd,
                   roleReceiverRound2(receiverStart.value.state, senderEnd.value.message))

\* roleExtendRandom / roleExtendWithInputs from round 2 of the sender on.
ROLEFinish(senderStart, receiverStart) ==
    IF receiverStart.raised THEN receiverStart
    ELSE ROLEFinishReceiver(receiverStart,
                            roleSenderRound2(senderStart.value.state,
                                             receiverStart.value.message))

\* roleExtendRandom / roleExtendWithInputs from round 1 of the receiver
\* on; inputs is its chosen xs or the choice bits BitVector.random returns.
ROLEExtend(params, senderStart, chosen, inputs, T, nonces) ==
    IF senderStart.raised THEN senderStart
    ELSE ROLEFinish(senderStart,
                    IF chosen
                    THEN roleReceiverRound1WithInputs(params, senderStart.value.message,
                                                      inputs, T, nonces)
                    ELSE roleReceiverRound1(params, senderStart.value.message,
                                            inputs, T, nonces))

\* roleExtendRandom(params)
roleExtendRandom(params, c, b, r, T, nonces) ==
    ROLEExtend(params, roleSenderRound1(params, c, b), FALSE, r, T, nonces)

\* roleExtendWithInputs(params, xs)
roleExtendWithInputs(params, xs, c, b, T, nonces) ==
    ROLEExtend(params, roleSenderRound1(params, c, b), TRUE, xs, T, nonces)

\* A sender pool that hands out a sample without advancing.
roleSenderNextRepeating(state) ==
    IF state.nextIndex >= state.params.numOLEs
    THEN [state |-> state, result |-> Raised("roleSenderNext: no precomputed OLEs left")]
    ELSE [state |-> state,
          result |-> Returned([index |-> state.nextIndex,
                               a |-> state.a[state.nextIndex + 1],
                               b |-> state.b[state.nextIndex + 1]])]

\* A receiver pool that starts over when it is exhausted.
roleReceiverNextWrapping(state) ==
    LET index == state.nextIndex % state.params.numOLEs
    IN  [state |-> [state EXCEPT !.nextIndex = index + 1],
         result |-> Returned([index |-> index, x |-> state.x[index + 1],
                              y |-> state.y[index + 1]])]

\* roleSenderNext(state) and roleReceiverNext(state): the state after the
\* call and what the call returns or throws.
roleSenderNext(state) ==
    IF state.nextIndex >= state.params.numOLEs
    THEN [state |-> state, result |-> Raised("roleSenderNext: no precomputed OLEs left")]
    ELSE [state |-> [state EXCEPT !.nextIndex = state.nextIndex + 1],
          result |-> Returned([index |-> state.nextIndex,
                               a |-> state.a[state.nextIndex + 1],
                               b |-> state.b[state.nextIndex + 1]])]

roleReceiverNext(state) ==
    IF state.nextIndex >= state.params.numOLEs
    THEN [state |-> state, result |-> Raised("roleReceiverNext: no precomputed OLEs left")]
    ELSE [state |-> [state EXCEPT !.nextIndex = state.nextIndex + 1],
          result |-> Returned([index |-> state.nextIndex,
                               x |-> state.x[state.nextIndex + 1],
                               y |-> state.y[state.nextIndex + 1]])]

(***************************************************************************)
(* A pool from roleExtendRandom or roleExtendWithInputs, then consumed     *)
(***************************************************************************)
\* Model bounds: the largest pool.
MaxOLEs == 2

\* The matrix BitMatrix.random(rows, cols) returns in the runs of ROLE.
ROLEMatrix(rows, cols) ==
    [rows |-> rows, cols |-> cols, data |-> [i \in 1..PackedBits(rows * cols) |-> i % 2]]

\* The pool that pool.ts keeps, once the precomputation returned.
PoolOf(outcome) ==
    IF outcome.raised THEN NoPool
    ELSE [made |-> TRUE, sender |-> outcome.value.sender,
          receiver |-> outcome.value.receiver, sent |-> <<>>, received |-> <<>>]

RoleExtendRandom ==
    /\ offline.fn = "none"
    /\ offline.args.layer = "role"
    /\ \E c \in BitVectorRandom(offline.args.params.k) :
        \E r \in BitVectorRandom(offline.args.params.numOLEs * offline.args.params.bitLength) :
         \E outcome \in {roleExtendRandom(
                             offline.args.params, c,
                             RandomScalars(0, offline.args.params.k), r,
                             ROLEMatrix(offline.args.params.numOLEs
                                        * offline.args.params.bitLength,
                                        offline.args.params.k),
                             RandomNonces(0, offline.args.params.k))} :
            /\ offline' = [offline EXCEPT !.fn = "roleExtendRandom",
                                          !.args.inputs = r, !.out = outcome]
            /\ pool' = PoolOf(outcome)
    /\ UNCHANGED <<x, poly, secret, single, vproof, origin, verdict, session>>

RoleExtendWithInputs ==
    /\ offline.fn = "none"
    /\ offline.args.layer = "role"
    /\ \E c \in BitVectorRandom(offline.args.params.k) :
        \E xs \in [1..offline.args.params.numOLEs -> 0..(2 ^ offline.args.params.bitLength - 1)] :
         \E outcome \in {roleExtendWithInputs(
                             offline.args.params, xs, c,
                             RandomScalars(0, offline.args.params.k),
                             ROLEMatrix(offline.args.params.numOLEs
                                        * offline.args.params.bitLength,
                                        offline.args.params.k),
                             RandomNonces(0, offline.args.params.k))} :
            /\ offline' = [offline EXCEPT !.fn = "roleExtendWithInputs",
                                          !.args.inputs = xs, !.out = outcome]
            /\ pool' = PoolOf(outcome)
    /\ UNCHANGED <<x, poly, secret, single, vproof, origin, verdict, session>>

\* The sender takes its next sample; pool.sent is what its calls returned
\* or threw, in call order.
RoleSenderNext ==
    /\ pool.made
    /\ Len(pool.sent) <= pool.sender.params.numOLEs
    /\ \E call \in {roleSenderNext(pool.sender)} :
        pool' = [pool EXCEPT !.sender = call.state, !.sent = Append(pool.sent, call.result)]
    /\ UNCHANGED <<x, poly, secret, single, vproof, origin, verdict, session, offline>>

\* The receiver takes its next sample; pool.received as pool.sent.
RoleReceiverNext ==
    /\ pool.made
    /\ Len(pool.received) <= pool.receiver.params.numOLEs
    /\ \E call \in {roleReceiverNext(pool.receiver)} :
        pool' = [pool EXCEPT !.receiver = call.state,
                             !.received = Append(pool.received, call.result)]
    /\ UNCHANGED <<x, poly, secret, single, vproof, origin, verdict, session, offline>>

InitRole ==
    /\ x = 0
    /\ poly = <<>>
    /\ secret = 0
    /\ single = NoCall
    /\ vproof = NoProof
    /\ origin = "none"
    /\ verdict = "none"
    /\ session = NoSession
    /\ pool = NoPool
    /\ \E numOLEs \in 0..MaxOLEs :
        \E bitLength \in 1..3 :
         \E k \in SecurityParameters :
          \E senderSk \in {2, 3} :
            offline = [fn |-> "none",
                       args |-> [layer |-> "role",
                                 params |-> [numOLEs |-> numOLEs, bitLength |-> bitLength,
                                             k |-> k, otParams |-> deriveOTParams(senderSk)],
                                 inputs |-> <<>>],
                       out |-> <<>>]

NextRole == RoleExtendRandom \/ RoleExtendWithInputs \/ RoleSenderNext \/ RoleReceiverNext

SpecRole == InitRole /\ [][NextRole]_vars

\* C11: after roleExtendRandom or roleExtendWithInputs with valid
\* parameters, y_i = a_i * x_i + b_i mod N for every i < numOLEs, whatever
\* the receiver's choice bits are.
C11_RoleCorrect ==
    pool.made =>
        \A i \in 1..pool.sender.params.numOLEs :
            pool.receiver.y[i] = mod(pool.sender.a[i] * pool.receiver.x[i] + pool.sender.b[i], N)

\* The indexes that the calls before call i of a log returned.
IndexesBefore(log, i) == {log[j].value.index : j \in {h \in 1..(i - 1) : ~log[h].raised}}

\* C16: over any sequence of roleSenderNext (roleReceiverNext) calls on
\* one pool state, nextIndex never decreases, the indexes returned are
\* 0, 1, 2, ... in call order, and no index is returned twice.
C16_PoolIndexesInOrder ==
    [][pool.made =>
          /\ pool'.sender.nextIndex >= pool.sender.nextIndex
          /\ pool'.receiver.nextIndex >= pool.receiver.nextIndex
          /\ \A log \in {pool'.sent, pool'.received} :
                \A i \in 1..Len(log) :
                    ~log[i].raised =>
                        /\ log[i].value.index = Cardinality(IndexesBefore(log, i))
                        /\ log[i].value.index \notin IndexesBefore(log, i)]_vars

\* Both pools handed out two samples.
C16_Witness ==
    /\ pool.made
    /\ Len(pool.sent) >= 2
    /\ Len(pool.received) >= 2
    /\ ~pool.sent[2].raised
    /\ ~pool.received[2].raised
    /\ pool.sent[2].value.index = 1
    /\ pool.received[1].value.index = 0

\* C17: roleSenderNext or roleReceiverNext called when nextIndex >= numOLEs
\* raises, returns no sample and leaves nextIndex and the stored samples
\* unchanged; at most numOLEs samples are ever returned from one pool.
C17_PoolExhausted ==
    [][pool.made =>
          /\ (Len(pool'.sent) > Len(pool.sent)
              /\ pool.sender.nextIndex >= pool.sender.params.numOLEs) =>
                 /\ pool'.sent[Len(pool'.sent)].raised
                 /\ pool'.sent[Len(pool'.sent)].value = FALSE
                 /\ pool'.sent[Len(pool'.sent)].error
                        = "roleSenderNext: no precomputed OLEs left"
                 /\ pool'.sender = pool.sender
          /\ (Len(pool'.received) > Len(pool.received)
              /\ pool.receiver.nextIndex >= pool.receiver.params.numOLEs) =>
                 /\ pool'.received[Len(pool'.received)].raised
                 /\ pool'.received[Len(pool'.received)].value = FALSE
                 /\ pool'.received[Len(pool'.received)].error
                        = "roleReceiverNext: no precomputed OLEs left"
                 /\ pool'.receiver = pool.receiver
          /\ Cardinality({i \in 1..Len(pool'.sent) : ~pool'.sent[i].raised})
                 <= pool.sender.params.numOLEs
          /\ Cardinality({i \in 1..Len(pool'.received) : ~pool'.received[i].raised})
                 <= pool.receiver.params.numOLEs]_vars

\* Both pools were asked for a sample after their last one.
C17_Witness ==
    /\ pool.made
    /\ Len(pool.sent) > pool.sender.params.numOLEs
    /\ Len(pool.received) > pool.receiver.params.numOLEs
    /\ pool.sent[Len(pool.sent)].raised
    /\ pool.received[Len(pool.received)].raised
    /\ ~pool.sent[1].raised
    /\ pool.sender.nextIndex = pool.sender.params.numOLEs

(***************************************************************************)
(* The VOLE prover under a caller that picks the OLE samples               *)
(***************************************************************************)
\* The OLE sender sample of an index in the node's pool, and the receiver
\* samples of indexes 0 .. n - 1 for the input e: y = a * e + b mod N.
OleSenderSample(index) ==
    [index |-> index, a |-> mod(2 * index + 1, N), b |-> mod(N - 1 - index, N)]
OleReceiverSamples(n, e) ==
    [i \in 1..n |-> [index |-> i - 1, x |-> e,
                     y |-> mod(OleSenderSample(i - 1).a * e + OleSenderSample(i - 1).b, N)]]

\* The caller runs proverVoleStart for node i with any sample of the pool,
\* used before or not.
ProverVoleStartAny(i) ==
    /\ session.protocol = "caller"
    /\ i \in 1..Len(session.shares)
    /\ session.round1[i].status = "pending"
    /\ \A j \in 1..(i - 1) : session.round1[j].status = "returned"
    /\ \E index \in 0..(Len(session.shares) - 1) :
          \E r \in {proverVoleStart([x |-> x, p |-> newVectorFrom(poly),
                                     srsShare |-> session.shares[i], P |-> PublicPoint],
                                    OleSenderSample(index))} :
              session' = [session EXCEPT !.round1[i] =
                             IF r.raised THEN [Round1Pending EXCEPT !.status = "raised"]
                             ELSE [status |-> "returned", message |-> r.value.share,
                                   state |-> r.value.state]]
    /\ UNCHANGED <<x, poly, secret, single, vproof, origin, verdict, offline, pool>>

\* The caller runs proverVoleFinalize on the shares with the receiver
\* samples 0 .. n - 1 for the challenge of the shares; pool.received is
\* the samples the returned proofs were reconstructed with, each with the
\* challenge it was used for.
ProverVoleFinalizeAny ==
    /\ session.protocol = "caller"
    /\ AllStarted
    /\ single.fn = "none"
    /\ \E agg \in {Aggregate(Round1Messages, x, PublicPoint)} :
        \E r \in {proverVoleFinalize(Round1Messages,
                                     OleReceiverSamples(Len(session.round1), agg.e),
                                     x, PublicPoint)} :
          /\ single' = [fn |-> "proverVoleFinalize", raised |-> r.raised,
                        error |-> r.error, proof |-> IF r.raised THEN NoProof ELSE r.value]
          /\ vproof' = IF r.raised THEN vproof ELSE r.value
          /\ origin' = IF r.raised THEN origin ELSE "vole"
          /\ pool' = [pool EXCEPT !.received =
                         IF r.raised THEN pool.received
                         ELSE pool.received
                              \o [i \in 1..Len(session.round1) |->
                                     [index |-> session.round1[i].message.oleIndex,
                                      e |-> agg.e]]]
    /\ UNCHANGED <<x, poly, secret, verdict, session, offline>>

\* The caller starts a second proof, at another evaluation point, with the
\* same nodes and pools; pool.sent is the evaluation points done with.
ProverVoleStartOver ==
    /\ session.protocol = "caller"
    /\ single.fn = "proverVoleFinalize"
    /\ Len(pool.sent) = 0
    /\ x' = (x % (N - 1)) + 1
    /\ poly' \in {p \in VanishingPolys(x') : Len(p) = Len(poly)}
    /\ single' = NoCall
    /\ session' = [session EXCEPT !.round1 = [i \in 1..Len(session.shares) |-> Round1Pending]]
    /\ pool' = [pool EXCEPT !.sent = <<x>>]
    /\ UNCHANGED <<secret, vproof, origin, verdict, offline>>

InitVoleCaller ==
    /\ x \in 1..(N - 1)
    /\ secret \in {2, 3}
    /\ poly \in VanishingPolys(x)
    /\ single = NoCall
    /\ vproof = NoProof
    /\ origin = "none"
    /\ verdict = "none"
    /\ session = [NoSession EXCEPT !.protocol = "caller"]
    /\ offline = NoOffline
    /\ pool = NoPool

NextVoleCaller ==
    \/ GenerateSharedSRS
    \/ \E i \in 1..MaxNodes : ProverVoleStartAny(i)
    \/ ProverVoleFinalizeAny
    \/ ProverVoleStartOver

SpecVoleCaller == InitVoleCaller /\ [][NextVoleCaller]_vars

\* C18: over any sequence of proverVoleStart and proverVoleFinalize calls,
\* one pair (oleIndex, a_i, b_i) is never used to mask or to reconstruct
\* responses for two different challenges e.
C18_SampleUsedForOneChallenge ==
    \A i \in 1..Len(pool.received), j \in 1..Len(pool.received) :
        pool.received[i].index = pool.received[j].index =>
            pool.received[i].e = pool.received[j].e

\* C19: proverVoleFinalize fails with a duplicate-index error and outputs
\* no proof whenever two of the node shares it is given carry the same
\* oleIndex.
C19_DuplicateShareIndexRaises ==
    (/\ single.fn = "proverVoleFinalize"
     /\ \E i \in 1..Len(session.round1), j \in 1..Len(session.round1) :
           i < j /\ session.round1[i].message.oleIndex = session.round1[j].message.oleIndex) =>
        /\ single.raised
        /\ single.error = "proverVoleFinalize: duplicate OLE index"

(***************************************************************************)
(* The shares of generateSharedSRS                                         *)
(***************************************************************************)
\* The sum of entry k over the rows i .. Len(rows).
RECURSIVE ColumnSum(_, _, _)
ColumnSum(rows, k, i) ==
    IF i > Len(rows) THEN 0 ELSE rows[i][k] + ColumnSum(rows, k, i + 1)

\* C20: generateSharedSRS(n, d, s) with n >= 1, d >= 0 and s # 0 mod N
\* returns exactly n share vectors, each of length d + 1, and for every k
\* in 0..d the sum over the nodes of entry k is s^k mod N, whatever random
\* values are drawn.  (n is the number of nodes the session was set up for,
\* d the degree bound Len(poly) - 1 and s the secret.)
C20_SharedSRSSums ==
    Len(session.round1) >= 1 =>
        /\ Len(session.shares) = Len(session.round1)
        /\ \A i \in 1..Len(session.shares) :
              /\ Len(session.shares[i]) = Len(poly)
              /\ \A k \in 1..Len(poly) : session.shares[i][k] \in 0..(N - 1)
        /\ \A k \in 1..Len(poly) :
              ColumnSum(session.shares, k, 1) % N = Power(secret, k - 1) % N

\* Shares for the largest number of nodes and a polynomial of degree >= 1,
\* the random row not being the targets.
C20_Witness ==
    /\ Len(session.shares) = MaxNodes
    /\ Len(poly) >= 2
    /\ session.shares[1] # getPowerSeries(secret, Len(poly))
    /\ session.shares[MaxNodes][2] # 0

(***************************************************************************)
(* commitPolynomial and the division of generateProofUsingSRS on their own *)
(***************************************************************************)
\* Coefficient lists as callers may pass them: not normalised (N is 0 mod
\* N), of any length from the empty list on.
RawPolys == UNION {[1..len -> 0..N] : len \in 0..MaxLen}

\* srs_prover.ts lines 86 and 97-109: the division of the normalised
\* coefficients by X - x, the remainder check, and the quotient b.slice(1).
DivideByLinear(polynomial, xNorm) ==
    LET coeffs == [i \in 1..Len(polynomial) |-> mod(polynomial[i], N)]
    IN  \* one evaluation of the recurrence
        (LET b == SyntheticDivision(coeffs, xNorm, 1)
         IN  IF b[1] # 0 THEN Raised("Division failed: p(x) != 0")
             ELSE Returned(SubSeq(b, 2, Len(b))))

\* A caller runs commitPolynomial(poly, generateSRS(secret, maxDegree)).
CommitPolynomial ==
    /\ offline.fn = "none"
    /\ \E srs \in {generateSRS(secret, offline.args.maxDegree)} :
          /\ ~srs.raised
          /\ offline' = [offline EXCEPT !.fn = "commitPolynomial",
                                        !.out = commitPolynomial(poly, srs.value)]
    /\ UNCHANGED <<x, poly, secret, single, vproof, origin, verdict, session, pool>>

\* The division step of generateProofUsingSRS on the polynomial and mod(x, N).
SyntheticDivide ==
    /\ offline.fn = "none"
    /\ Len(poly) >= 1
    /\ offline' = [offline EXCEPT !.fn = "division",
                                  !.out = DivideByLinear(poly, mod(x, N))]
    /\ UNCHANGED <<x, poly, secret, single, vproof, origin, verdict, session, pool>>

InitCommit ==
    /\ x \in 0..N
    /\ poly \in RawPolys
    /\ secret \in 1..(N - 1)
    /\ single = NoCall
    /\ vproof = NoProof
    /\ origin = "none"
    /\ verdict = "none"
    /\ session = NoSession
    /\ offline \in {[fn |-> "none", args |-> [maxDegree |-> d], out |-> <<>>] :
                    d \in 0..(MaxLen - 1)}
    /\ pool = NoPool

NextCommit == CommitPolynomial \/ SyntheticDivide

SpecCommit == InitCommit /\ [][NextCommit]_vars

\* Some coefficient is non-zero mod N.
SomeNonZero(coefficients) == \E i \in 1..Len(coefficients) : mod(coefficients[i], N) # 0

\* C21: with srs = generateSRS(s, d), commitPolynomial(coeffs, srs) returns
\* the point p(s)*G for every coefficient list of length <= d + 1 that has a
\* coefficient non-zero mod N (the neutral element, in its affine form (0, 0),
\* when p(s) = 0 mod N).
C21_CommitIsValueTimesG ==
    (/\ offline.fn = "commitPolynomial"
     /\ Len(poly) <= offline.args.maxDegree + 1
     /\ SomeNonZero(poly))
    => offline.out = PointMultiply(G, ValueAt(poly, secret))

\* A list with a skipped zero coefficient, a coefficient that needs the
\* reduction mod N, and a value p(s) that is not 0.
C21_Witness ==
    /\ offline.fn = "commitPolynomial"
    /\ Len(poly) = 2
    /\ poly[1] = 0
    /\ poly[2] = N - 1
    /\ offline.args.maxDegree = 1
    /\ offline.out = PointMultiply(G, ValueAt(poly, secret))
    /\ offline.out # ZERO

\* C22: commitPolynomial raises whenever the coefficient list is longer than
\* the SRS and whenever every coefficient is zero mod N, the empty list
\* included, and returns no point then.
C22_CommitRaises ==
    (/\ offline.fn = "commitPolynomial"
     /\ (Len(poly) > offline.args.maxDegree + 1 \/ ~SomeNonZero(poly)))
    => offline.out = Thrown

\* C24: for every x and every coefficient list of degree d >= 1 with
\* p(x) = 0 mod N, the recurrence leaves the remainder b[0] = 0 and the
\* quotient q = b[1..d] has length d and (X - x) * q(X) = p(X) coefficient
\* by coefficient mod N.
TimesLinear(q, at) ==
    [i \in 1..(Len(q) + 1) |->
        mod((IF i > 1 THEN q[i - 1] ELSE 0) - (IF i <= Len(q) THEN at * q[i] ELSE 0), N)]

C24_DivisionIsExact ==
    (/\ offline.fn = "division"
     /\ Len(poly) >= 2
     /\ ValueAt(poly, x) = 0)
    => /\ ~offline.out.raised
       /\ Len(offline.out.value) = Len(poly) - 1
       /\ TimesLinear(offline.out.value, x) = [i \in 1..Len(poly) |-> mod(poly[i], N)]

\* A division with a quotient that is not zero, at a point that is not zero.
C24_Witness ==
    /\ offline.fn = "division"
    /\ Len(poly) = MaxLen
    /\ mod(x, N) # 0
    /\ ValueAt(poly, x) = 0
    /\ ~offline.out.raised
    /\ \E i \in 1..Len(offline.out.value) : offline.out.value[i] # 0

(***************************************************************************)
(* The challenge input, byte by byte: buildChallenge and the inline        *)
(* packing of generateProofUsingSRS                                        *)
(***************************************************************************)
\* A word has WordBytes bytes (32) and an address AddrBytes bytes (20), a
\* byte ByteBits bits; an address string has two digits per byte, of radix
\* Radix (16).
WordBytes == 2
AddrBytes == 2
Radix == 2
ByteRange == 2 ^ ByteBits

\* The number parseInt returns for a string without a leading digit.
NaN == 0 - 1

\* str.slice(from, to)
Slice(str, from, to) == SubSeq(str, from + 1, IF to < Len(str) THEN to ELSE Len(str))

\* addr.startsWith('0x')
StartsWith0x(str) == Len(str) >= 2 /\ str[1] = "0" /\ str[2] = "x"

DigitValue(c) == IF c = "0" THEN 0 ELSE IF c = "1" THEN 1 ELSE NaN

\* parseInt(str, 16): an optional 0x, then the longest run of digits; NaN
\* when there is none.
RECURSIVE ParseDigits(_, _, _)
ParseDigits(str, i, acc) ==
    IF i > Len(str) \/ DigitValue(str[i]) = NaN THEN acc
    ELSE ParseDigits(str, i + 1, acc * Radix + DigitValue(str[i]))

parseInt(str) ==
    LET digits == IF StartsWith0x(str) THEN Slice(str, 2, Len(str)) ELSE str
    IN  IF Len(digits) = 0 THEN NaN
        ELSE IF DigitValue(digits[1]) = NaN THEN NaN
        ELSE ParseDigits(digits, 1, 0)

\* The store of a number into an element of a Uint8Array: NaN becomes 0,
\* any other number is reduced to a byte.
ToUint8(value) == IF value = NaN THEN 0 ELSE mod(value, ByteRange)

\* bytes.ts on byte strings.
encodeU8Bytes(value) == <<ToUint8(mod(value, ByteRange))>>

encodeU256Bytes(value, length) ==
    [i \in 1..length |-> mod(value \div (2 ^ (ByteBits * (length - i))), ByteRange)]

\* parseInt(...) || 0
encodeAddressBytes(addr) ==
    LET addrBytes == IF StartsWith0x(addr) THEN Slice(addr, 2, Len(addr)) ELSE addr
    IN  [i \in 1..AddrBytes |->
            LET byte == parseInt(Slice(addrBytes, (i - 1) * 2, (i - 1) * 2 + 2))
            IN  ToUint8(IF byte = NaN \/ byte = 0 THEN 0 ELSE byte)]

RECURSIVE concatBytes(_)
concatBytes(arrays) ==
    IF Len(arrays) = 0 THEN <<>> ELSE arrays[1] \o concatBytes(Tail(arrays))

\* challenge.ts buildChallenge: the packed input.
buildChallengeData(Cx, Wx, Px, Py, A1addr, A2addr, xIn, parity) ==
    concatBytes(<<encodeU8Bytes(1), encodeU256Bytes(Cx, WordBytes),
                  encodeU256Bytes(Wx, WordBytes), encodeU256Bytes(Px, WordBytes),
                  encodeU256Bytes(Py, WordBytes), encodeAddressBytes(A1addr),
                  encodeAddressBytes(A2addr), encodeU256Bytes(xIn, WordBytes),
                  encodeU8Bytes(parity)>>)

\* A writeAddress that does not strip the prefix.
writeAddressPrefixed(addr) ==
    [i \in 1..AddrBytes |-> ToUint8(parseInt(Slice(addr, (i - 1) * 2, (i - 1) * 2 + 2)))]

\* srs_prover.ts writeUint256 and writeAddress: the bytes written at offset.
writeUint256(value) ==
    [i \in 1..WordBytes |-> mod(value \div (2 ^ (ByteBits * (WordBytes - i))), ByteRange)]

writeAddress(addr) ==
    LET addrBytes == IF StartsWith0x(addr) THEN Slice(addr, 2, Len(addr)) ELSE addr
    IN  [i \in 1..AddrBytes |->
            ToUint8(parseInt(Slice(addrBytes, (i - 1) * 2, (i - 1) * 2 + 2)))]

\* srs_prover.ts lines 141-164: challengeData after the writes.
inlineChallengeData(Cx, Wx, Px, Py, A1addr, A2addr, xNorm, parity) ==
    <<ToUint8(1)>> \o writeUint256(Cx) \o writeUint256(Wx) \o writeUint256(Px)
        \o writeUint256(Py) \o writeAddress(A1addr) \o writeAddress(A2addr)
        \o writeUint256(xNorm) \o <<ToUint8(mod(parity, ByteRange))>>

\* mod(BigInt(keccak256(challengeData)), N)
ChallengeOf(challengeData) == mod(keccak256(challengeData), N)

\* Words in and out of the range of 32 bytes, address strings with and
\* without prefix, too short, and with characters that are no digits, and
\* parities in and out of the range of a byte.
ChallengeWords == {3, U256 - 1, U256 + 6}
AddressStrings ==
    {<<"0", "1", "1", "0">>, <<"0", "x", "0", "1", "1", "0">>, <<"1", "g", "g", "1">>,
     <<"1", "1", "1">>, <<>>, <<"0", "x">>}
ChallengeInputs ==
    [Cx : ChallengeWords, Wx : ChallengeWords, Px : {GX}, Py : {GY, P - GY},
     A1addr : AddressStrings, A2addr : AddressStrings, x : ChallengeWords,
     parity : {0, 1, 3, ByteRange + 2}]

\* The two packings and the two challenges for the same eight values.
BuildChallenges ==
    /\ offline.fn = "none"
    /\ \E a \in {offline.args} :
          \E inline \in {inlineChallengeData(a.Cx, a.Wx, a.Px, a.Py, a.A1addr, a.A2addr,
                                             a.x, a.parity)},
             built \in {buildChallengeData(a.Cx, a.Wx, a.Px, a.Py, a.A1addr, a.A2addr,
                                           a.x, a.parity)} :
              offline' = [offline EXCEPT !.fn = "challenge",
                                         !.out = [inlineData |-> inline,
                                                  inlineE |-> ChallengeOf(inline),
                                                  buildData |-> built,
                                                  buildE |-> ChallengeOf(built)]]
    /\ UNCHANGED <<x, poly, secret, single, vproof, origin, verdict, session, pool>>

InitChallenge ==
    /\ x = 1
    /\ poly = <<0>>
    /\ secret = 1
    /\ single = NoCall
    /\ vproof = NoProof
    /\ origin = "none"
    /\ verdict = "none"
    /\ session = NoSession
    /\ offline \in {[fn |-> "none", args |-> a, out |-> <<>>] : a \in ChallengeInputs}
    /\ pool = NoPool

NextChallenge == BuildChallenges

SpecChallenge == InitChallenge /\ [][NextChallenge]_vars

\* C25: for the same (Cx, Wx, Px, Py, A1addr, A2addr, x, parity) the inline
\* packing of generateProofUsingSRS and buildChallenge build the same input,
\* domain byte | Cx | Wx | Px | Py | A1addr | A2addr | x | parity, of one
\* byte, five words, two addresses and one byte, and return the same
\* e = Keccak256(input) mod N.
C25_SamePacking ==
    offline.fn = "challenge"
    => /\ offline.out.inlineData = offline.out.buildData
       /\ Len(offline.out.buildData) = 1 + 5 * WordBytes + 2 * AddrBytes + 1
       /\ offline.out.buildData[1] = 1
       /\ offline.out.inlineE = offline.out.buildE
       /\ offline.out.buildE = mod(keccak256(offline.out.buildData), N)

\* Prefixed address strings, one with characters that are no digits, and
\* values beyond a word and a byte.
C25_Witness ==
    /\ offline.fn = "challenge"
    /\ StartsWith0x(offline.args.A1addr)
    /\ offline.args.A2addr = <<"1", "g", "g", "1">>
    /\ offline.args.Cx > U256
    /\ offline.args.parity > ByteRange
    /\ offline.out.inlineE = offline.out.buildE

(***************************************************************************)
(* evm_verifier.ts                                                         *)
(***************************************************************************)
isValidScalar(s) == s > 0 /\ s < N
isValidCoord(a) == a > 0 /\ a < P
isValidPoint(pt) == isValidCoord(pt[1]) /\ isValidCoord(pt[2]) /\ isOnCurve(pt)

inputsInvalid(proof) ==
    \/ ~isValidScalar(proof.x)
    \/ ~isValidScalar(proof.z)
    \/ ~isValidPoint(proof.C)
    \/ ~isValidPoint(proof.W)
    \/ ~isValidPoint(proof.P)

\* evm_verifier.ts lines 60-87: the inverses and the fields of the calldata,
\* in the order of the hex string.
CalldataFields(proof, version, X, zT, eC, derive) ==
    LET Hinv == IF derive THEN modInverse(mod(proof.P[1] - X[1], P), P) ELSE 0
        Hinv2 == IF derive THEN modInverse(mod(zT[1] - eC[1], P), P) ELSE 0
    IN  IF Hinv = ThrownScalar \/ Hinv2 = ThrownScalar THEN Raised("invert")
        ELSE Returned([version |-> version, Cx |-> proof.C[1], Wx |-> proof.W[1],
                       Xx |-> X[1], Xy |-> X[2], zTx |-> zT[1], zTy |-> zT[2],
                       eCx |-> eC[1], eCy |-> eC[2], Hinv |-> Hinv, Hinv2 |-> Hinv2,
                       z |-> proof.z, x |-> proof.x, A1addr |-> ecAddress(proof.A1),
                       A2addr |-> ecAddress(proof.A2),
                       parity |-> Parity(proof.C[2], proof.W[2])])

\* evm_verifier.ts lines 36-58, for inputs that passed the validation.  u1
\* and u2 are the coordinates the curve library yields for z*T and e*C when
\* P or C is off the curve.
CalldataDerived(proof, version, X, e, u1, u2) ==
    LET zT == Resolve(ecMul(ecSub(proof.P, X), proof.z), u1)
        eC == Resolve(ecMul(proof.C, e), u2)
    IN  IF X = Thrown \/ zT = Thrown \/ eC = Thrown THEN Raised("invalid scalar")
        ELSE CalldataFields(proof, version, X, zT, eC, TRUE)

encodeVerifyPolynomialCalldata(proof, version, u1, u2) ==
    IF inputsInvalid(proof)
    THEN CalldataFields(proof, version, <<0, 0>>, <<0, 0>>, <<0, 0>>, FALSE)
    ELSE CalldataDerived(proof, version, ecMul(G, proof.x), ProofChallenge(proof), u1, u2)

\* A caller encodes the calldata of vproof with the default version.
EncodeVerifyPolynomialCalldata ==
    /\ offline.fn = "none"
    /\ \E u1 \in OutcomesFor(<<vproof.P>>), u2 \in OutcomesFor(<<vproof.C>>) :
          \E r \in {encodeVerifyPolynomialCalldata(vproof, 1, u1, u2)} :
              offline' = [offline EXCEPT !.fn = "encodeVerifyPolynomialCalldata",
                                         !.out = r]
    /\ UNCHANGED <<x, poly, secret, single, vproof, origin, verdict, session, pool>>

\* Proofs of curve points and scalars in range, and proofs with x, z, C, W
\* or P replaced by an invalid value.
InitCalldata ==
    /\ x = 0
    /\ poly = <<>>
    /\ secret = 0
    /\ single = NoCall
    /\ \/ vproof \in SeedProofs
       \/ \E seed \in SeedProofs, bad \in BadPoints \cup {ZERO} :
             vproof \in {[seed EXCEPT !.C = bad], [seed EXCEPT !.W = bad],
                         [seed EXCEPT !.P = bad]}
       \/ \E seed \in SeedProofs, bad \in BadScalars :
             vproof \in {[seed EXCEPT !.x = bad], [seed EXCEPT !.z = bad]}
    /\ origin = "input"
    /\ verdict = "none"
    /\ session = NoSession
    /\ offline = NoOffline
    /\ pool = NoPool

NextCalldata == EncodeVerifyPolynomialCalldata

SpecCalldata == InitCalldata /\ [][NextCalldata]_vars

\* A coordinate outside (0, P), or a point off the curve.
InvalidCalldataPoint(pt) ==
    \/ ~(pt[1] > 0 /\ pt[1] < P)
    \/ ~(pt[2] > 0 /\ pt[2] < P)
    \/ ~CurveEquation(pt)

InvalidCalldataInput(proof) ==
    \/ ~(proof.x >= 1 /\ proof.x < N)
    \/ ~(proof.z >= 1 /\ proof.z < N)
    \/ InvalidCalldataPoint(proof.C)
    \/ InvalidCalldataPoint(proof.W)
    \/ InvalidCalldataPoint(proof.P)

DerivedFieldsZero(fields) ==
    /\ fields.Xx = 0 /\ fields.Xy = 0
    /\ fields.zTx = 0 /\ fields.zTy = 0
    /\ fields.eCx = 0 /\ fields.eCy = 0
    /\ fields.Hinv = 0 /\ fields.Hinv2 = 0

\* C26: when x or z is outside [1, N) or any of C, W, P has a coordinate
\* outside (0, P) or is off the curve, encodeVerifyPolynomialCalldata raises
\* no error and returns calldata whose derived fields Xx, Xy, zTx, zTy, eCx,
\* eCy, Hinv and Hinv2 are all zero.
C26_InvalidInputsGiveZeroFields ==
    (/\ offline.fn = "encodeVerifyPolynomialCalldata"
     /\ InvalidCalldataInput(vproof))
    => /\ ~offline.out.raised
       /\ DerivedFieldsZero(offline.out.value)

(***************************************************************************)
(* The VOLE prover against the interactive prover                          *)
(***************************************************************************)
\* What proverStart returns at node i for the inputs of the run.
InteractiveStart(i) ==
    proverStart([x |-> x, p |-> newVectorFrom(poly), srsShare |-> session.shares[i],
                 P |-> PublicPoint])

\* The proof of the interactive prover for the inputs of the run:
\* proverStart at every node, proverRespond at every node on all Round-1
\* messages, proverFinalize on the Round-2 outputs.
InteractiveProofOf(starts) ==
    proverFinalize([i \in 1..Len(starts) |->
                       proverRespond([j \in 1..Len(starts) |-> starts[j].value.message],
                                     x, PublicPoint, starts[i].value.state).value])

InteractiveProof ==
    InteractiveProofOf([i \in 1..Len(session.shares) |-> InteractiveStart(i)])

\* C23: for every node, all masks (a_i, b_i) and every challenge e,
\* y_i + e * deltaW_i + deltaK_i with y_i = a_i * e + b_i equals
\* k_i + e * w_i mod N; and the proof that proverVoleFinalize returns has the
\* same C, W, A1, A2, x and z as the proof the interactive prover builds from
\* the same x, p, P and SRS shares.
C23_VoleRefinesInteractive ==
    session.protocol = "vole" =>
        /\ \A i \in 1..Len(session.round1) :
              session.round1[i].status = "returned" =>
                  \A e \in Scalars :
                      FieldAdd(mod(session.round1[i].state.a * e
                                   + session.round1[i].state.b, N),
                               FieldAdd(FieldMul(e, session.round1[i].message.deltaW),
                                        session.round1[i].message.deltaK))
                          = mod(session.round1[i].state.k
                                + e * session.round1[i].state.wi, N)
        /\ (single.fn = "proverVoleFinalize" /\ ~single.raised) =>
              \E ref \in {InteractiveProof} :
                  /\ ~ref.raised
                  /\ single.proof.C = ref.value.C
                  /\ single.proof.W = ref.value.W
                  /\ single.proof.A1 = ref.value.A1
                  /\ single.proof.A2 = ref.value.A2
                  /\ single.proof.x = ref.value.x
                  /\ single.proof.z = ref.value.z

\* A proof of two nodes with different masks.
C23_Witness ==
    /\ session.protocol = "vole"
    /\ single.fn = "proverVoleFinalize"
    /\ ~single.raised
    /\ Len(session.round1) = MaxNodes
    /\ session.round1[1].state.a # session.round1[2].state.a
    /\ single.proof.z = InteractiveProof.value.z

(***************************************************************************)
(* The barrier between Round 1 and Round 2                                 *)
(***************************************************************************)
\* A challenge has been computed, by the aggregator or by a node in its
\* Round 2 (which then released its z_i or refused to).
ChallengeComputed(s) ==
    \/ s.challenge.set
    \/ \E i \in 1..Len(s.round2) : s.round2[i].status # "pending"

Round1Present(s) ==
    /\ Len(s.round1) >= 1
    /\ \A i \in 1..Len(s.round1) : s.round1[i].status = "returned"

NodePolys == {p \in Polys : \A i \in 1..Len(p) : p[i] \in {0, 1, N - 1}}

InitNodes ==
    /\ x \in {1, 2, N - 1}
    /\ secret \in {2, 3}
    /\ poly \in NodePolys
    /\ single = NoCall
    /\ vproof = NoProof
    /\ origin = "none"
    /\ verdict = "none"
    /\ session \in {[NoSession EXCEPT !.protocol = "threshold"],
                    [NoSession EXCEPT !.protocol = "vole"]}
    /\ offline = NoOffline
    /\ pool = NoPool

NextNodes ==
    \/ GenerateSharedSRS
    \/ \E i \in 1..MaxNodes : ProverStart(i)
    \/ \E i \in 1..MaxNodes : ProverRespond(i)
    \/ ProverFinalize
    \/ \E i \in 1..MaxNodes : ProverVoleStart(i)
    \/ ProverVoleFinalize
    \/ Verify

SpecNodes == InitNodes /\ [][NextNodes]_vars

\* The list in another order.
Reordered(list, order) == [i \in 1..Len(list) |-> list[order[i]]]

\* proverVoleFinalize on the shares in another order gives what the call of
\* the run gave.
SameVoleOutcome(r) ==
    /\ r.raised = single.raised
    /\ r.error = single.error
    /\ ~r.raised => r.value = single.proof

\* C27: for every order of the Round-1 shares passed to proverRespond, of the
\* Round-2 outputs passed to proverFinalize and of the shares passed to
\* proverVoleFinalize, the aggregated C, W, A1, A2, the challenge e and the
\* final z are the same; and the proof of the interactive prover is the one
\* of the nodes' Round-1 outputs, in whatever order the nodes ran.
C27_OrderOfNodesIrrelevant ==
    /\ session.protocol = "merged" =>
          \A order \in Permutations(1..Len(session.round1)) :
              /\ \A i \in 1..Len(session.round2) :
                    session.round2[i].status = "returned" =>
                        proverRespond(Reordered(Round1Messages, order), x, PublicPoint,
                                      session.round1[i].state).value
                            = session.round2[i].out
              /\ origin = "threshold" =>
                    /\ proverFinalize(Reordered(Round2Outputs, order)).value = vproof
                    /\ vproof = InteractiveProof.value
    /\ (session.protocol = "vole" /\ single.fn = "proverVoleFinalize") =>
          \A order \in Permutations(1..Len(session.round1)) :
              SameVoleOutcome(
                  proverVoleFinalize(Reordered(Round1Messages, order),
                                     ReceiverSamples(Aggregate(Round1Messages, x,
                                                               PublicPoint).e),
                                     x, PublicPoint))

\* Two nodes with different commitment shares, in a finished run.
C27_Witness ==
    /\ session.protocol = "merged"
    /\ origin = "threshold"
    /\ Len(session.round1) = MaxNodes
    /\ session.round1[1].message.Ci # session.round1[2].message.Ci
    /\ session.round1[1].message.A1i # session.round1[2].message.A1i
    /\ proverFinalize(Reordered(Round2Outputs, [i \in 1..MaxNodes |-> MaxNodes + 1 - i])).value
           = vproof

\* C29: if p(x) # 0 mod N, x # s and the challenge e # 0, the proof assembled
\* by proverRespond / proverFinalize or by proverVoleFinalize from the
\* outputs of proverStart / proverVoleStart, which do not test p(x) = 0, is
\* rejected by verifyProof.
C29_NonVanishingRejected ==
    (/\ ValueAt(poly, x) # 0
     /\ x # secret
     /\ origin \in {"threshold", "vole"}
     /\ verdict # "none"
     /\ ProofChallenge(vproof) # 0)
    => verdict = "false"

\* A proof of two nodes for a polynomial of degree >= 1 that does not vanish
\* at x, with a response in range, has been rejected.
C29_Witness ==
    /\ ValueAt(poly, x) # 0
    /\ x # secret
    /\ Len(poly) = MaxLen
    /\ poly[MaxLen] # 0
    /\ Len(session.round1) = MaxNodes
    /\ origin = "vole"
    /\ vproof.z # 0
    /\ ProofChallenge(vproof) # 0
    /\ verdict = "false"

(***************************************************************************)
(* The two pools of one precomputation, consumed side by side              *)
(***************************************************************************)
\* The j-th sample of the sender and the j-th sample of the receiver.
PairedSamples(sent, received, j) ==
    (~sent[j].raised /\ ~received[j].raised) =>
        /\ sent[j].value.index = received[j].value.index
        /\ received[j].value.y
               = mod(sent[j].value.a * received[j].value.x + sent[j].value.b, N)

\* C30: for the pools of one roleExtendRandom or roleExtendWithInputs run,
\* in every interleaving of roleSenderNext and roleReceiverNext calls the
\* j-th sample returned to the sender and the j-th sample returned to the
\* receiver carry the same index and satisfy y = a * x + b mod N, and a call
\* on one side never changes the other side's state.
C30_PoolsStayPaired ==
    [][(pool.made /\ pool'.made) =>
          /\ \A j \in 1..Len(pool'.sent) :
                j <= Len(pool'.received) => PairedSamples(pool'.sent, pool'.received, j)
          /\ Len(pool'.sent) > Len(pool.sent) =>
                (pool'.receiver = pool.receiver /\ pool'.received = pool.received)
          /\ Len(pool'.received) > Len(pool.received) =>
                (pool'.sender = pool.sender /\ pool'.sent = pool.sent)]_vars

=============================================================================
